---- MODULE Spec2Model ----
(***************************************************************************)
(* GitHub release monitor (src/main.py): novelty detection against the     *)
(* state store, release history with age pruning, notification fanout with *)
(* per-user keyword filters, and the adaptive per-repository priority      *)
(* schedule.                                                               *)
(*                                                                         *)
(* Time is an integer number of minutes.  Timestamps are stored by the     *)
(* code as datetime.isoformat() strings and read back with                 *)
(* datetime.fromisoformat(); that round trip is exact, so a stored         *)
(* timestamp is modelled by the minute it denotes.                         *)
(*                                                                         *)
(* Text is a sequence of one-character strings, so that lower-casing,      *)
(* joining and substring search are computed and not assumed.              *)
(***************************************************************************)
EXTENDS Integers, Sequences, FiniteSets, TLC

\* ------------------------------------------------------------------ bounds
MaxTag      == 2    \* releases the upstream publishes per repository
MaxRuns     == 2    \* check passes (ticks, force passes) started in a behaviour
MaxAdvances == 1    \* clock advances in a behaviour
MaxRestarts == 1    \* process kills in a behaviour
MaxCommands == 3    \* bot commands handled in a behaviour
MaxWindowCount == 5 \* history entries per repository drawn by InitPrio
MaxFailures == 6    \* consecutive_failures drawn by InitPrio
MaxStrLen   == 2    \* length of the texts drawn by InitMatch
MaxKeywords == 2    \* keywords drawn by InitMatch
MaxHistoryLen == 2  \* entries of a history drawn for a call of add_release
MaxSaves == 2       \* update_tag calls in a behaviour of the state store's save
MaxJobs == 2        \* runs of the priority_update job in a behaviour

\* ------------------------------------------------------- program constants
HISTORY_DAYS                   == 30
PRIORITY_UPDATE_DAYS           == 7
MIN_CHECK_INTERVAL_MINUTES     == 15
MAX_CHECK_INTERVAL_MINUTES     == 1440
DEFAULT_CHECK_INTERVAL_MINUTES == 360
ACTIVE_DAYS                    == 30
PRIORITY_RECALC_HOURS          == 6
MAX_RETRIES                    == 3
RETRY_DELAY                    == 2
RATE_LIMIT_MIN_WAIT            == 60

MinutesPerDay == 24 * 60

\* Scores are multiples of 1/PRIORITY_UPDATE_DAYS less multiples of 0.1, so
\* every score the code computes is n/ScoreScale for an integer n.
ScoreScale == 10 * PRIORITY_UPDATE_DAYS
\* PRIORITY_THRESHOLD_HIGH = 0.5 and PRIORITY_THRESHOLD_LOW = 0.1 in units
\* of 1/ScoreScale.
PRIORITY_THRESHOLD_HIGH == ScoreScale \div 2
PRIORITY_THRESHOLD_LOW  == ScoreScale \div 10

AllRepos == <<"r1", "r2">>
UserIds  == {1, 2, 3}
\* the users whose commands are interleaved with the passes
Callers  == {1, 2}
CHANNEL_ID == 0    \* the broadcast channel, as a recipient beside the user ids
ADMIN_ID == 1      \* the administrator's user id
Tasks    == {"tick", "force"}

None == <<"<None>">>

\* ------------------------------------------------------------------- text
Min(a, b) == IF a <= b THEN a ELSE b
Max(a, b) == IF a >= b THEN a ELSE b

\* str.lower() on one character of the model's alphabet
LowerChar(c) ==
    CASE c = "A" -> "a"
      [] c = "B" -> "b"
      [] OTHER   -> c

\* str.lower()
LowerStr(s) == [i \in 1..Len(s) |-> LowerChar(s[i])]

\* str.strip(): drop leading and trailing blanks
RECURSIVE LStrip(_)
LStrip(s) == IF s # <<>> /\ Head(s) = " " THEN LStrip(Tail(s)) ELSE s
RECURSIVE RStrip(_)
RStrip(s) == IF s # <<>> /\ s[Len(s)] = " " THEN RStrip(SubSeq(s, 1, Len(s) - 1)) ELSE s
Strip(s) == RStrip(LStrip(s))

\* the `in` operator on strings
IsSubstring(k, s) ==
    \E i \in 0..(Len(s) - Len(k)) : SubSeq(s, i + 1, i + Len(k)) = k

\* " ".join(fields)
RECURSIVE SpaceJoin(_)
SpaceJoin(fields) ==
    IF fields = <<>> THEN <<>>
    ELSE IF Len(fields) = 1 THEN fields[1]
    ELSE fields[1] \o <<" ">> \o SpaceJoin(Tail(fields))

\* search_fields of matches_filters: name, tag_name, body, then asset names
SearchFields(release) ==
    <<release.name, release.tag_name, release.body>> \o release.assets

\* matches_filters with the asset names left out of search_fields
matches_filters_NoAssets(release, keywords) ==
    IF keywords = <<>> THEN "True"
    ELSE IF None \in {release.name, release.tag_name, release.body}
         THEN "TypeError"
    ELSE IF \A i \in 1..Len(keywords) :
              IsSubstring(LowerStr(keywords[i]),
                          LowerStr(SpaceJoin(<<release.name, release.tag_name, release.body>>)))
         THEN "True" ELSE "False"

\* matches_filters: "True", "False", or "TypeError" when " ".join meets a
\* field that is None (dict.get returns None for a key present with null)
matches_filters(release, keywords) ==
    IF keywords = <<>> THEN "True"
    ELSE IF \E i \in 1..Len(SearchFields(release)) : SearchFields(release)[i] = None
         THEN "TypeError"
    ELSE IF \A i \in 1..Len(keywords) :
              IsSubstring(LowerStr(keywords[i]), LowerStr(SpaceJoin(SearchFields(release))))
         THEN "True" ELSE "False"

\* FilterManager.set_filters normalisation: strip, lower, drop empties
RECURSIVE NormalizeKeywords(_)
NormalizeKeywords(keywords) ==
    IF keywords = <<>> THEN <<>>
    ELSE IF Strip(Head(keywords)) = <<>> THEN NormalizeKeywords(Tail(keywords))
    ELSE <<LowerStr(Strip(Head(keywords)))>> \o NormalizeKeywords(Tail(keywords))

\* ------------------------------------------------------------- priorities
\* _create_default_priority
DefaultPriority ==
    [update_count         |-> 0,
     last_update          |-> -1,
     check_interval       |-> DEFAULT_CHECK_INTERVAL_MINUTES,
     priority_score       |-> 0,
     last_check           |-> -1,
     consecutive_failures |-> 0,
     total_checks         |-> 0]

NoRecord == [absent |-> TRUE]

\* failure_penalty added to the score instead of subtracted from it
FailurePenalty_Bonus(failures) ==
    0 - Min(failures * PRIORITY_UPDATE_DAYS, ScoreScale \div 2)

\* failure_penalty = min(consecutive_failures * 0.1, 0.5), in 1/ScoreScale
FailurePenalty(failures) ==
    Min(failures * PRIORITY_UPDATE_DAYS, ScoreScale \div 2)

\* adjusted_score = max(0, update_count / PRIORITY_UPDATE_DAYS - penalty),
\* in 1/ScoreScale
AdjustedScore(update_count, failures) ==
    Max(0, 10 * update_count - FailurePenalty(failures))

IntervalSpan == MAX_CHECK_INTERVAL_MINUTES - MIN_CHECK_INTERVAL_MINUTES
ThresholdSpan == PRIORITY_THRESHOLD_HIGH - PRIORITY_THRESHOLD_LOW

\* the interpolation branch with the sign of the slope reversed
CheckIntervalOf_Rising(adjusted) ==
    IF adjusted >= PRIORITY_THRESHOLD_HIGH THEN MIN_CHECK_INTERVAL_MINUTES
    ELSE IF adjusted <= PRIORITY_THRESHOLD_LOW THEN MAX_CHECK_INTERVAL_MINUTES
    ELSE (MAX_CHECK_INTERVAL_MINUTES * ThresholdSpan
            + (adjusted - PRIORITY_THRESHOLD_LOW) * IntervalSpan) \div ThresholdSpan

\* the interpolation branch rounding to the nearest minute instead of int()
CheckIntervalOf_Rounded(adjusted) ==
    IF adjusted >= PRIORITY_THRESHOLD_HIGH THEN MIN_CHECK_INTERVAL_MINUTES
    ELSE IF adjusted <= PRIORITY_THRESHOLD_LOW THEN MAX_CHECK_INTERVAL_MINUTES
    ELSE (2 * (MAX_CHECK_INTERVAL_MINUTES * ThresholdSpan
                - (adjusted - PRIORITY_THRESHOLD_LOW) * IntervalSpan)
            + ThresholdSpan) \div (2 * ThresholdSpan)

\* the interval branches of update_priorities.  int() truncates toward zero;
\* the interpolated value is positive, so that is the floor of the exact
\* quotient.  (No score n/ScoreScale strictly between the thresholds makes
\* the quotient an integer, and the only score on a threshold, 35/70, is
\* exact in binary floating point, so the float computation and this
\* integer one agree on every input.)
CheckIntervalOf(adjusted) ==
    IF adjusted >= PRIORITY_THRESHOLD_HIGH THEN MIN_CHECK_INTERVAL_MINUTES
    ELSE IF adjusted <= PRIORITY_THRESHOLD_LOW THEN MAX_CHECK_INTERVAL_MINUTES
    ELSE (MAX_CHECK_INTERVAL_MINUTES * ThresholdSpan
            - (adjusted - PRIORITY_THRESHOLD_LOW) * IntervalSpan) \div ThresholdSpan

\* round(adjusted_score, 3), in thousandths (100n/7 is never a half-integer)
RoundedScore(adjusted) == (2 * 1000 * adjusted + ScoreScale) \div (2 * ScoreScale)


\* ------------------------------------------------------------------ state
VARIABLES
    REPOS,                \* the configured repository list, fixed by Init
    commands,             \* bot commands handled so far
    now,                  \* wall clock, minutes
    advances,             \* clock advances so far
    upstream,             \* latest release GitHub serves per repository
    state,                \* state_manager.state: repo -> last seen tag
    history,              \* history_manager.history
    priorities,           \* priority_manager.priorities
    last_priority_update, \* priority_manager.last_priority_update (-1: None)
    db,                   \* rows of checkgithub_repository_priorities
    savePending,          \* a _save_priorities_to_db task is scheduled
    users_data,           \* user_manager.users_data
    filters,              \* filter_manager.filters, in insertion order
    task,                 \* the check passes: scheduled tick, force pass
    runs,                 \* passes started so far
    restarts,             \* process kills so far
    checks,               \* per repository, the log of check_single_repo calls
    lastFanout,           \* the send_notifications call that ended last
    killed,               \* per repository, the tag whose fanout a kill cut
    probe                 \* a call under study: its inputs, progress and result

vars == <<REPOS, commands, now, advances, upstream, state, history, priorities,
          last_priority_update, db, savePending, users_data, filters, task,
          runs, restarts, checks, lastFanout, killed, probe>>

Repos == {REPOS[i] : i \in 1..Len(REPOS)}

Digits == <<"1", "2", "3", "4", "5", "6", "7", "8", "9">>
TagText(n) == <<Digits[n]>>

NoRelease == [n |-> 0]
NoUser    == [absent |-> TRUE]
NoFanout  == [repo |-> "none"]
NoProbe   == [result |-> "none"]

\* release payloads the upstream serves: a titled release, and one whose
\* name is null
Payloads ==
    { [name |-> <<"A">>, body |-> <<"b">>, assets |-> <<>>],
      [name |-> None,    body |-> <<>>,    assets |-> <<>>] }

\* keyword lists users type (already split on whitespace)
FilterInputs == { << <<"A">> >>, << <<"2">> >> }

\* clock advances: a tick period, past the recalculation period, past the
\* analysis window, past the retention and activity windows
TimeSteps ==
    { MIN_CHECK_INTERVAL_MINUTES,
      PRIORITY_RECALC_HOURS * 60 + 1,
      (PRIORITY_UPDATE_DAYS + 1) * MinutesPerDay,
      (HISTORY_DAYS + 1) * MinutesPerDay }

IdleTask ==
    [pc |-> "idle", queue |-> <<>>, repo |-> "none", current_time |-> 0,
     release |-> NoRelease, stage |-> "none", to |-> 0, pos |-> 0, left |-> 0,
     used0 |-> 0, rest |-> {}, active |-> {}, reg0 |-> {}, filt0 |-> <<>>,
     cmd0 |-> 0, attempted |-> <<>>, idx |-> 0, due |-> <<>>,
     checked |-> <<>>, failed |-> FALSE]

\* ----------------------------------------------------------------- stores
\* get_priority: the record, created with defaults when missing
GetPriority(P, repo) == IF P[repo] = NoRecord THEN DefaultPriority ELSE P[repo]

\* record_check that leaves consecutive_failures alone on a success
record_check_NoReset(P, repo, success, t) ==
    LET p == GetPriority(P, repo) IN
    [P EXCEPT ![repo] =
        [p EXCEPT !.total_checks = p.total_checks + 1,
                  !.last_check = t,
                  !.consecutive_failures =
                      IF success THEN p.consecutive_failures
                      ELSE p.consecutive_failures + 1]]

\* record_check
record_check(P, repo, success, t) ==
    LET p == GetPriority(P, repo) IN
    [P EXCEPT ![repo] =
        [p EXCEPT !.total_checks = p.total_checks + 1,
                  !.last_check = t,
                  !.consecutive_failures =
                      IF success THEN 0 ELSE p.consecutive_failures + 1]]

\* record_update that also moves the repository to the shortest interval
record_update_Boosting(P, repo, t) ==
    [P EXCEPT ![repo] = [GetPriority(P, repo) EXCEPT
        !.update_count = @ + 1,
        !.last_update = t,
        !.consecutive_failures = 0,
        !.check_interval = MIN_CHECK_INTERVAL_MINUTES]]

\* record_update
record_update(P, repo, t) ==
    LET p == GetPriority(P, repo) IN
    [P EXCEPT ![repo] =
        [p EXCEPT !.update_count = p.update_count + 1,
                  !.last_update = t,
                  !.consecutive_failures = 0]]

\* the loop body's "priority_data['last_check'] = current_time.isoformat()"
SetLastCheck(P, repo, t) ==
    [P EXCEPT ![repo] = [GetPriority(P, repo) EXCEPT !.last_check = t]]

\* releases of repo in history published inside the analysis window
WindowCount(h, repo, t) ==
    Cardinality({i \in 1..Len(h) :
        /\ h[i].repo_name = repo
        /\ h[i].published_at >= t - PRIORITY_UPDATE_DAYS * MinutesPerDay})

\* update_priorities
update_priorities(P, h, t) ==
    [repo \in Repos |->
        LET existing == GetPriority(P, repo)
            update_count == WindowCount(h, repo, t)
            adjusted == AdjustedScore(update_count, existing.consecutive_failures)
        IN [existing EXCEPT !.update_count = update_count,
                            !.check_interval = CheckIntervalOf(adjusted),
                            !.priority_score = RoundedScore(adjusted)]]

\* should_update_priorities
should_update_priorities(last, t) ==
    \/ last = -1
    \/ t - last > PRIORITY_RECALC_HOURS * 60

\* _load_priorities_from_db: the rows, defaults for repositories without one
LoadPriorities(rows) ==
    [repo \in Repos |-> IF rows[repo] = NoRecord THEN DefaultPriority ELSE rows[repo]]

\* a save that drops nothing
SaveHistory_KeepAll(h, t) == h

\* _save_history: drop entries published before the retention cutoff
SaveHistory(h, t) ==
    SelectSeq(h, LAMBDA e : e.published_at >= t - HISTORY_DAYS * MinutesPerDay)

InHistory(h, repo, tag) ==
    \E i \in 1..Len(h) : h[i].repo_name = repo /\ h[i].tag_name = tag

\* add_release without the test for an entry already present
add_release_NoDedup(h, repo, release, t) ==
    SaveHistory(Append(h, [repo_name |-> repo, tag_name |-> release.tag_name,
                           published_at |-> release.published_at]), t)

\* add_release: append unless (repo, tag) is present, then _save_history
add_release(h, repo, release, t) ==
    IF InHistory(h, repo, release.tag_name) THEN h
    ELSE SaveHistory(Append(h, [repo_name |-> repo, tag_name |-> release.tag_name,
                                published_at |-> release.published_at]), t)

\* get_active_users(30)
get_active_users(ud, t) ==
    {u \in UserIds :
        /\ ud[u] # NoUser
        /\ \/ ud[u].last_activity = -1
           \/ ud[u].last_activity >= t - ACTIVE_DAYS * MinutesPerDay}

\* filter_manager.filters is a dict: insertion-ordered entries <<uid, keywords>>.
\* del leaves a dummy entry in place, a new key is appended, an existing
\* key's value is replaced where it stands (CPython's compact dict, which
\* keeps this layout until its first resize at the sixth appended entry).
Dummy == <<-1, <<>>>>

\* the live entries: what len(), keys() and json.dump see
Live(flt) == SelectSeq(flt, LAMBDA e : e # Dummy)

FilterKeys(flt) == {flt[i][1] : i \in {j \in 1..Len(flt) : flt[j] # Dummy}}

\* filter_manager.get_filters
get_filters(flt, uid) ==
    IF uid \in FilterKeys(flt)
    THEN flt[CHOOSE i \in 1..Len(flt) : flt[i][1] = uid][2]
    ELSE <<>>

\* the dict iterator's search for the next live entry after index pos (0: none)
NextEntry(flt, pos) ==
    IF \E i \in (pos + 1)..Len(flt) : flt[i] # Dummy
    THEN CHOOSE i \in (pos + 1)..Len(flt) :
            /\ flt[i] # Dummy
            /\ \A j \in (pos + 1)..(i - 1) : flt[j] = Dummy
    ELSE 0

\* pass 1 of send_notifications, from one step of "for ... in
\* filter_manager.filters.items()" to the next await: "send" to a user
\* whose filter matches, "end" of the loop, or "raise".  The iterator raises
\* RuntimeError when the dict's size differs from the size at its creation
\* (used0), or when it finds an entry after yielding as many as the dict
\* held (left = 0); matches_filters raises TypeError.  Only ValueError is
\* caught around the loop body, so either leaves send_notifications.
RECURSIVE Pass1(_, _, _, _, _, _)
Pass1(flt, pos, left, used0, release, active) ==
    LET i == NextEntry(flt, pos) IN
    IF Len(Live(flt)) # used0 THEN [kind |-> "raise", uid |-> 0, pos |-> pos, left |-> left]
    ELSE IF i = 0 THEN [kind |-> "end", uid |-> 0, pos |-> pos, left |-> left]
    ELSE IF left = 0 THEN [kind |-> "raise", uid |-> 0, pos |-> pos, left |-> left]
    ELSE IF flt[i][1] \notin active
         THEN Pass1(flt, i, left - 1, used0, release, active)
    ELSE LET m == matches_filters(release, flt[i][2]) IN
         IF m = "TypeError"
         THEN [kind |-> "raise", uid |-> 0, pos |-> i, left |-> left - 1]
         ELSE IF m = "True"
         THEN [kind |-> "send", uid |-> flt[i][1], pos |-> i, left |-> left - 1]
         ELSE Pass1(flt, i, left - 1, used0, release, active)

\* set_filters: normalise (strip, lower, drop empties); store when non-empty
set_filters(flt, uid, keywords) ==
    LET kws == NormalizeKeywords(keywords) IN
    IF kws = <<>> THEN flt
    ELSE IF uid \in FilterKeys(flt)
         THEN [i \in 1..Len(flt) |-> IF flt[i][1] = uid THEN <<uid, kws>> ELSE flt[i]]
         ELSE Append(flt, <<uid, kws>>)

\* clear_filters
clear_filters(flt, uid) ==
    [i \in 1..Len(flt) |-> IF flt[i][1] = uid THEN Dummy ELSE flt[i]]

\* add_user followed by record_activity(user, 'command')
TouchUser(ud, uid, t) == [ud EXCEPT ![uid] = [last_activity |-> t]]

\* ----------------------------------------------------------------- checks
\* the log entry of a check_single_repo call
CheckEntry(by, tag, novel, added, fanout, wroteState, done, prevDone, hcount) ==
    [by |-> by, tag |-> tag, novel |-> novel, added |-> added,
     fanout |-> fanout, wroteState |-> wroteState, done |-> done,
     prevDone |-> prevDone, hcount |-> hcount, epoch |-> restarts]

HistoryCount(h, repo, tag) ==
    Cardinality({i \in 1..Len(h) : h[i].repo_name = repo /\ h[i].tag_name = tag})

PrevDone(repo) ==
    checks[repo] = <<>> \/ checks[repo][Len(checks[repo])].done

\* the pass's loop, leaving its queue behind after a check
Paused_Stopping(tk) ==
    [IdleTask EXCEPT !.pc = "pause", !.queue = <<>>, !.repo = tk.repo,
                     !.current_time = tk.current_time, !.due = tk.due,
                     !.checked = Append(tk.checked, tk.repo)]

\* the pass's loop after check_single_repo returned: last_check is set to the
\* pass's start time, a save is scheduled, and the loop sleeps.  due is the
\* list the pass was started with, checked the repositories whose
\* check_single_repo call has returned in this pass
Paused(tk) ==
    [IdleTask EXCEPT !.pc = "pause", !.queue = tk.queue, !.repo = tk.repo,
                     !.current_time = tk.current_time, !.due = tk.due,
                     !.checked = Append(tk.checked, tk.repo)]

\* what a send_notifications call did, kept when it ends: the stores as the
\* call found them, the filters at its end, the number of commands handled
\* during it, the recipients a send was awaited for, and whether the call
\* returned ("done") or raised ("aborted"), and whether a bot.send_message
\* of it raised (failed)
FanoutRecord(tk, attempted, outcome) ==
    [repo |-> tk.repo, release |-> tk.release, active |-> tk.active,
     registered |-> tk.reg0, filt |-> tk.filt0, filtEnd |-> Live(filters),
     during |-> commands - tk.cmd0, attempted |-> attempted,
     outcome |-> outcome, failed |-> tk.failed]

\* the novelty test of check_single_repo, with the history store consulted
\* instead of the state store
IsNovel_ByHistory(s, h, repo, tag) == ~InHistory(h, repo, tag)

\* the novelty test of check_single_repo: the tag differs from the state
\* store's; the history store is not consulted
IsNovel(s, h, repo, tag) == s[repo] # tag

\* send_notifications once pass 1 is over: pass 2 when an active user has no
\* filter, else the channel
AfterPass1(tk) ==
    [tk EXCEPT !.stage = IF tk.rest # {} THEN "plain" ELSE "channel", !.to = 0]

\* pass 1 run on from the iterator's position to its next await
Resume(tk, flt) ==
    LET r == Pass1(flt, tk.pos, tk.left, tk.used0, tk.release, tk.active) IN
    IF r.kind = "send"
    THEN [tk EXCEPT !.stage = "filters", !.to = r.uid, !.pos = r.pos, !.left = r.left]
    ELSE IF r.kind = "end" THEN AfterPass1(tk)
    ELSE [tk EXCEPT !.stage = "raise"]

\* a tag test that lets every release through
HasTag_Any(release) == TRUE

\* "if not current_tag": the release's tag_name is neither null nor empty
HasTag(release) == release.tag_name # None /\ release.tag_name # <<>>

\* check_single_repo writing the state store at detection, before the fanout
FetchDone_StateFirst(t, ok) ==
    LET tk      == task[t]
        repo    == tk.repo
        release == IF ok THEN upstream[repo] ELSE NoRelease
        success == release # NoRelease
        P1      == record_check(priorities, repo, success, now)
    IN
    /\ tk.pc = "fetch"
    /\ savePending' = TRUE
    /\ UNCHANGED <<REPOS, commands, now, advances, upstream, last_priority_update,
                   db, filters, runs, restarts, killed, probe, users_data>>
    /\ state' = IF success /\ IsNovel(state, history, repo, release.tag_name)
                THEN [state EXCEPT ![repo] = release.tag_name]
                ELSE state
    /\ IF ~success \/ ~HasTag(release)
          \/ ~IsNovel(state, history, repo, release.tag_name)
       THEN
         /\ priorities' = SetLastCheck(P1, repo, tk.current_time)
         /\ task' = [task EXCEPT ![t] = Paused(tk)]
         /\ checks' = [checks EXCEPT ![repo] = Append(@,
                CheckEntry(t, IF ~success THEN None
                              ELSE IF HasTag(release) THEN release.tag_name
                              ELSE <<>>,
                           FALSE, FALSE, FALSE, FALSE, TRUE, PrevDone(repo),
                           IF success
                           THEN HistoryCount(history, repo, release.tag_name)
                           ELSE 0))]
         /\ UNCHANGED <<history, lastFanout>>
       ELSE
         LET h1     == add_release(history, repo, release, now)
             P2     == record_update(P1, repo, now)
             active == get_active_users(users_data, now)
             tk1    == [tk EXCEPT !.release = release, !.active = active,
                                  !.rest = active \ FilterKeys(filters),
                                  !.pos = 0, !.left = Len(Live(filters)),
                                  !.used0 = Len(Live(filters)),
                                  !.reg0 = {u \in UserIds : users_data[u] # NoUser},
                                  !.filt0 = Live(filters),
                                  !.cmd0 = commands,
                                  !.attempted = <<>>,
                                  !.idx = Len(checks[repo]) + 1]
             tk2    == Resume(tk1, filters)
         IN
         /\ history' = h1
         /\ IF tk2.stage = "raise"
            THEN
              /\ priorities' = SetLastCheck(P2, repo, tk.current_time)
              /\ task' = [task EXCEPT ![t] = Paused(tk)]
              /\ lastFanout' = FanoutRecord(tk1, <<>>, "aborted")
              /\ checks' = [checks EXCEPT ![repo] = Append(@,
                     CheckEntry(t, release.tag_name, TRUE, h1 # history, TRUE,
                                FALSE, TRUE, PrevDone(repo),
                                HistoryCount(h1, repo, release.tag_name)))]
            ELSE
              /\ priorities' = P2
              /\ task' = [task EXCEPT ![t] = [tk2 EXCEPT !.pc = "send"]]
              /\ UNCHANGED lastFanout
              /\ checks' = [checks EXCEPT ![repo] = Append(@,
                     CheckEntry(t, release.tag_name, TRUE, h1 # history, TRUE,
                                FALSE, FALSE, PrevDone(repo), 0))]

\* check_single_repo from the return of fetch_release up to the first await
\* of send_notifications (or to its return when pass 1 raises at once)
FetchDone(t, ok) ==
    LET tk      == task[t]
        repo    == tk.repo
        release == IF ok THEN upstream[repo] ELSE NoRelease
        success == release # NoRelease
        P1      == record_check(priorities, repo, success, now)
    IN
    /\ tk.pc = "fetch"
    /\ savePending' = TRUE
    /\ UNCHANGED <<REPOS, commands, now, advances, upstream, state, last_priority_update,
                   db, filters, runs, restarts, killed, probe, users_data>>
    /\ IF ~success \/ ~HasTag(release)
          \/ ~IsNovel(state, history, repo, release.tag_name)
       THEN
         /\ priorities' = SetLastCheck(P1, repo, tk.current_time)
         /\ task' = [task EXCEPT ![t] = Paused(tk)]
         /\ checks' = [checks EXCEPT ![repo] = Append(@,
                CheckEntry(t, IF ~success THEN None
                              ELSE IF HasTag(release) THEN release.tag_name
                              ELSE <<>>,
                           FALSE, FALSE, FALSE, FALSE, TRUE, PrevDone(repo),
                           IF success
                           THEN HistoryCount(history, repo, release.tag_name)
                           ELSE 0))]
         /\ UNCHANGED <<history, lastFanout>>
       ELSE
         LET h1     == add_release(history, repo, release, now)
             P2     == record_update(P1, repo, now)
             active == get_active_users(users_data, now)
             tk1    == [tk EXCEPT !.release = release, !.active = active,
                                  !.rest = active \ FilterKeys(filters),
                                  !.pos = 0, !.left = Len(Live(filters)),
                                  !.used0 = Len(Live(filters)),
                                  !.reg0 = {u \in UserIds : users_data[u] # NoUser},
                                  !.filt0 = Live(filters),
                                  !.cmd0 = commands,
                                  !.attempted = <<>>,
                                  !.idx = Len(checks[repo]) + 1]
             tk2    == Resume(tk1, filters)
         IN
         /\ history' = h1
         /\ IF tk2.stage = "raise"
            THEN
              /\ priorities' = SetLastCheck(P2, repo, tk.current_time)
              /\ task' = [task EXCEPT ![t] = Paused(tk)]
              /\ lastFanout' = FanoutRecord(tk1, <<>>, "aborted")
              /\ checks' = [checks EXCEPT ![repo] = Append(@,
                     CheckEntry(t, release.tag_name, TRUE, h1 # history, TRUE,
                                FALSE, TRUE, PrevDone(repo),
                                HistoryCount(h1, repo, release.tag_name)))]
            ELSE
              /\ priorities' = P2
              /\ task' = [task EXCEPT ![t] = [tk2 EXCEPT !.pc = "send"]]
              /\ UNCHANGED lastFanout
              /\ checks' = [checks EXCEPT ![repo] = Append(@,
                     CheckEntry(t, release.tag_name, TRUE, h1 # history, TRUE,
                                FALSE, FALSE, PrevDone(repo), 0))]

\* send_notifications from the return of one bot.send_message to the next
\* await, or through update_tag to the pass's sleep when it was the last.
\* A failed send (ok = FALSE) is logged and the loop goes on.
SendDone(t, ok) ==
    LET tk   == task[t]
        repo == tk.repo
        cands == IF tk.stage = "filters" THEN {tk.to}
                 ELSE IF tk.stage = "plain" THEN tk.rest
                 ELSE {CHANNEL_ID}
    IN
    /\ tk.pc = "send"
    /\ \E rcp \in cands :
        LET att1 == Append(tk.attempted, rcp)
            tkA  == [tk EXCEPT !.attempted = att1,
                               !.failed = tk.failed \/ ~ok,
                               !.rest = IF tk.stage = "plain" THEN tk.rest \ {rcp}
                                        ELSE tk.rest]
            tk2  == IF tk.stage = "filters" THEN Resume(tkA, filters)
                    ELSE IF tk.stage = "plain"
                    THEN (IF tkA.rest = {} THEN AfterPass1(tkA) ELSE tkA)
                    ELSE [tkA EXCEPT !.stage = "done"]
        IN
        \* record_activity(user_id, 'notification') after a successful send
        /\ users_data' = IF ok /\ rcp # CHANNEL_ID /\ users_data[rcp] # NoUser
                         THEN [users_data EXCEPT ![rcp] = [last_activity |-> now]]
                         ELSE users_data
        /\ IF tk2.stage = "raise"
           THEN
             /\ UNCHANGED state
             /\ priorities' = SetLastCheck(priorities, repo, tk.current_time)
             /\ savePending' = TRUE
             /\ task' = [task EXCEPT ![t] = Paused(tk)]
             /\ lastFanout' = FanoutRecord(tkA, att1, "aborted")
             /\ checks' = [checks EXCEPT ![repo][tk.idx] =
                    [@ EXCEPT !.done = TRUE,
                              !.hcount = HistoryCount(history, repo, tk.release.tag_name)]]
           ELSE IF tk2.stage = "done"
           THEN
             /\ state' = [state EXCEPT ![repo] = tk.release.tag_name]
             /\ priorities' = SetLastCheck(priorities, repo, tk.current_time)
             /\ savePending' = TRUE
             /\ task' = [task EXCEPT ![t] = Paused(tk)]
             /\ lastFanout' = FanoutRecord(tkA, att1, "done")
             /\ checks' = [checks EXCEPT ![repo][tk.idx] =
                    [@ EXCEPT !.done = TRUE, !.wroteState = TRUE,
                              !.hcount = HistoryCount(history, repo, tk.release.tag_name)]]
           ELSE
             /\ task' = [task EXCEPT ![t] = tk2]
             /\ UNCHANGED <<state, priorities, savePending, lastFanout, checks>>
    /\ UNCHANGED <<REPOS, commands, now, advances, upstream, history, last_priority_update, db,
                   filters, runs, restarts, killed, probe>>

\* the pass's loop after its sleep: the next repository, or the pass ends
PauseDone(t) ==
    /\ task[t].pc = "pause"
    /\ task' = [task EXCEPT ![t] =
                  IF task[t].queue = <<>> THEN IdleTask
                  ELSE [task[t] EXCEPT !.pc = "fetch",
                                       !.repo = Head(task[t].queue),
                                       !.queue = Tail(task[t].queue)]]
    /\ UNCHANGED <<REPOS, commands, now, advances, upstream, state, history, priorities,
                   last_priority_update, db, savePending, users_data, filters,
                   runs, restarts, checks, lastFanout, killed, probe>>

StartedTask(list, t) ==
    [IdleTask EXCEPT !.pc = "fetch", !.repo = Head(list), !.queue = Tail(list),
                     !.current_time = t, !.due = list]

\* due only once more than check_interval minutes have passed
IsDue_Strict(p, t) == p.last_check = -1 \/ t - p.last_check > p.check_interval

\* is a repository due: no last_check, or check_interval minutes have passed
IsDue(p, t) == p.last_check = -1 \/ t - p.last_check >= p.check_interval

\* check_repositories up to its first await.  The scheduler runs at most one
\* instance of the job (max_instances=1)
TickStart ==
    LET recalc == should_update_priorities(last_priority_update, now)
        P0 == IF recalc THEN update_priorities(priorities, history, now)
              ELSE priorities
        P1 == [repo \in Repos |-> GetPriority(P0, repo)]
        due == SelectSeq(REPOS, LAMBDA repo : IsDue(P1[repo], now))
    IN
    /\ task["tick"].pc = "idle"
    /\ runs < MaxRuns
    /\ runs' = runs + 1
    /\ priorities' = P1
    /\ last_priority_update' = IF recalc THEN now ELSE last_priority_update
    /\ savePending' = (savePending \/ P1 # priorities)
    /\ task' = IF due = <<>> THEN task
               ELSE [task EXCEPT !["tick"] = StartedTask(due, now)]
    /\ UNCHANGED <<REPOS, commands, now, advances, upstream, state, history, db, users_data,
                   filters, restarts, checks, lastFanout, killed, probe>>

\* a force pass that selects the due repositories as the tick does
ForceStart_OnlyDue ==
    LET due == SelectSeq(REPOS, LAMBDA repo :
                   IsDue(GetPriority(priorities, repo), now))
    IN
    /\ task["force"].pc = "idle"
    /\ runs < MaxRuns
    /\ runs' = runs + 1
    /\ task' = IF due = <<>> THEN task
               ELSE [task EXCEPT !["force"] = StartedTask(due, now)]
    /\ UNCHANGED <<REPOS, commands, now, advances, upstream, state, history, priorities,
                   last_priority_update, db, savePending, users_data, filters,
                   restarts, checks, lastFanout, killed, probe>>

\* /checkall: check_all_repositories up to its first await
ForceStart ==
    /\ task["force"].pc = "idle"
    /\ runs < MaxRuns
    /\ runs' = runs + 1
    /\ task' = [task EXCEPT !["force"] = StartedTask(REPOS, now)]
    /\ UNCHANGED <<REPOS, commands, now, advances, upstream, state, history, priorities,
                   last_priority_update, db, savePending, users_data, filters,
                   restarts, checks, lastFanout, killed, probe>>

\* the scheduler's priority_update job, run without a switch to the event
\* loop's thread.  The job is a plain callable, which the scheduler runs in
\* a worker thread: asyncio.create_task at its end finds no running loop
\* and raises, so no save is scheduled
UpdatePrioritiesJob ==
    /\ priorities' = update_priorities(priorities, history, now)
    /\ last_priority_update' = now
    /\ UNCHANGED <<REPOS, commands, now, advances, upstream, state, history, db, users_data,
                   filters, task, runs, restarts, checks, lastFanout, killed,
                   probe, savePending>>

\* a scheduled _save_priorities_to_db task runs: upsert of every record held
SaveToDb ==
    /\ savePending
    /\ savePending' = FALSE
    /\ db' = [repo \in Repos |->
                IF priorities[repo] = NoRecord THEN db[repo] ELSE priorities[repo]]
    /\ UNCHANGED <<REPOS, commands, now, advances, upstream, state, history, priorities,
                   last_priority_update, users_data, filters, task, runs,
                   restarts, checks, lastFanout, killed, probe>>

\* ------------------------------------------------------------ environment
\* time passes
Advance(d) ==
    /\ advances < MaxAdvances
    /\ advances' = advances + 1
    /\ now' = now + d
    /\ UNCHANGED <<REPOS, commands, upstream, state, history, priorities,
                   last_priority_update, db, savePending, users_data, filters,
                   task, runs, restarts, checks, lastFanout, killed, probe>>

\* the repository's maintainers publish a release; it becomes the latest
Publish(repo, payload) ==
    /\ upstream[repo].n < MaxTag
    /\ upstream' = [upstream EXCEPT ![repo] =
          [n            |-> upstream[repo].n + 1,
           tag_name     |-> TagText(upstream[repo].n + 1),
           name         |-> payload.name,
           body         |-> payload.body,
           assets       |-> payload.assets,
           published_at |-> now]]
    /\ UNCHANGED <<REPOS, commands, now, advances, state, history, priorities,
                   last_priority_update, db, savePending, users_data, filters,
                   task, runs, restarts, checks, lastFanout, killed, probe>>

\* the latest release upstream comes without a tag: tag_name null or empty
PublishNoTag(repo, payload, tag) ==
    /\ upstream[repo].n < MaxTag
    /\ upstream' = [upstream EXCEPT ![repo] =
          [n            |-> upstream[repo].n + 1,
           tag_name     |-> tag,
           name         |-> payload.name,
           body         |-> payload.body,
           assets       |-> payload.assets,
           published_at |-> now]]
    /\ UNCHANGED <<REPOS, commands, now, advances, state, history, priorities,
                   last_priority_update, db, savePending, users_data, filters,
                   task, runs, restarts, checks, lastFanout, killed, probe>>

\* the latest release upstream is withdrawn: releases/latest answers with
\* the release before it again
Unpublish(repo) ==
    /\ upstream[repo].n > 1
    /\ upstream[repo].tag_name = TagText(upstream[repo].n)
    /\ upstream' = [upstream EXCEPT ![repo] =
          [@ EXCEPT !.n = @ - 1, !.tag_name = TagText(upstream[repo].n - 1)]]
    /\ UNCHANGED <<REPOS, commands, now, advances, state, history, priorities,
                   last_priority_update, db, savePending, users_data, filters,
                   task, runs, restarts, checks, lastFanout, killed, probe>>

\* start_command: add_user, record_activity
StartCommand(uid) ==
    /\ commands < MaxCommands
    /\ commands' = commands + 1
    /\ users_data' = TouchUser(users_data, uid, now)
    /\ UNCHANGED <<REPOS, now, advances, upstream, state, history, priorities,
                   last_priority_update, db, savePending, filters, task, runs,
                   restarts, checks, lastFanout, killed, probe>>

\* process_filter_text: add_user, record_activity, set_filters
FilterCommand(uid, keywords) ==
    /\ commands < MaxCommands
    /\ commands' = commands + 1
    /\ users_data' = TouchUser(users_data, uid, now)
    /\ filters' = set_filters(filters, uid, keywords)
    /\ UNCHANGED <<REPOS, now, advances, upstream, state, history, priorities,
                   last_priority_update, db, savePending, task, runs, restarts,
                   checks, lastFanout, killed, probe>>

\* clearfilters_command: add_user, record_activity, clear_filters when the
\* user has filters
ClearFiltersCommand(uid) ==
    /\ commands < MaxCommands
    /\ commands' = commands + 1
    /\ users_data' = TouchUser(users_data, uid, now)
    /\ filters' = IF get_filters(filters, uid) # <<>>
                  THEN clear_filters(filters, uid) ELSE filters
    /\ UNCHANGED <<REPOS, now, advances, upstream, state, history, priorities,
                   last_priority_update, db, savePending, task, runs, restarts,
                   checks, lastFanout, killed, probe>>

\* priority_command: add_user, record_activity; for the administrator
\* initialize_priorities reloads the rows and stamps last_priority_update, or
\* fails (dbOk false) and leaves both alone; get_priority then fills in a
\* default record for every repository without one
PriorityCommand(uid, dbOk) ==
    LET P0 == IF uid = ADMIN_ID /\ dbOk THEN LoadPriorities(db) ELSE priorities
        P1 == IF uid = ADMIN_ID THEN [repo \in Repos |-> GetPriority(P0, repo)]
              ELSE priorities
    IN
    /\ commands < MaxCommands
    /\ commands' = commands + 1
    /\ users_data' = TouchUser(users_data, uid, now)
    /\ priorities' = P1
    /\ last_priority_update' = IF uid = ADMIN_ID /\ dbOk THEN now
                               ELSE last_priority_update
    /\ savePending' = (savePending \/ P1 # P0)
    /\ UNCHANGED <<REPOS, now, advances, upstream, state, history, db, filters, task,
                   runs, restarts, checks, lastFanout, killed, probe>>

\* tags whose fanout is under way (history written, state not yet)
CutTags(repo) ==
    {task[t].release.tag_name : t \in {u \in Tasks :
        /\ task[u].pc = "send"
        /\ task[u].repo = repo
        /\ state[repo] # task[u].release.tag_name}}

\* The process is killed and started again: main() builds the stores from
\* their files, initialize_priorities loads the rows (dbOk) or fails and
\* leaves priorities empty, the filter dict is rebuilt from its file, and
\* the startup force pass begins.  Scheduled save tasks die with the process.
Restart(dbOk) ==
    /\ restarts < MaxRestarts
    /\ restarts' = restarts + 1
    /\ killed' = [repo \in Repos |-> Append(killed[repo], CutTags(repo))]
    /\ priorities' = IF dbOk THEN LoadPriorities(db)
                     ELSE [repo \in Repos |-> NoRecord]
    /\ last_priority_update' = IF dbOk THEN now ELSE -1
    /\ savePending' = FALSE
    /\ task' = [t \in Tasks |->
                  IF t = "force" THEN StartedTask(REPOS, now) ELSE IdleTask]
    /\ filters' = Live(filters)
    /\ UNCHANGED <<REPOS, commands, now, advances, upstream, state, history, db,
                   users_data, runs, checks, lastFanout, probe>>

\* ------------------------------------------------------------------- Spec
\* a fresh installation after main()'s initialisation: empty stores, no rows,
\* initialize_priorities succeeded or failed, startup force pass begun
Fresh(list) ==
    /\ REPOS = list
    /\ commands = 0
    /\ now = 0
    /\ advances = 0
    /\ upstream = [repo \in Repos |-> NoRelease]
    /\ state = [repo \in Repos |-> None]
    /\ history = <<>>
    /\ \E dbOk \in BOOLEAN :
         /\ priorities = IF dbOk THEN [repo \in Repos |-> DefaultPriority]
                         ELSE [repo \in Repos |-> NoRecord]
         /\ last_priority_update = IF dbOk THEN 0 ELSE -1
    /\ db = [repo \in Repos |-> NoRecord]
    /\ savePending = FALSE
    /\ users_data = [u \in UserIds |-> NoUser]
    /\ filters = <<>>
    /\ task = [t \in Tasks |->
                 IF t = "force" THEN StartedTask(list, 0) ELSE IdleTask]
    /\ runs = 0
    /\ restarts = 0
    /\ checks = [repo \in Repos |-> <<>>]
    /\ lastFanout = NoFanout
    /\ killed = [repo \in Repos |-> <<>>]
    /\ probe = NoProbe

Init == Fresh(SubSeq(AllRepos, 1, 1))

\* the check passes
Passes ==
    \/ \E t \in Tasks, ok \in BOOLEAN : FetchDone(t, ok)
    \/ \E t \in Tasks, ok \in BOOLEAN : SendDone(t, ok)
    \/ \E t \in Tasks : PauseDone(t)
    \/ TickStart
    \/ ForceStart

Next ==
    \/ Passes
    \/ UpdatePrioritiesJob
    \/ SaveToDb
    \/ \E d \in TimeSteps : Advance(d)
    \/ \E repo \in Repos, payload \in Payloads : Publish(repo, payload)
    \/ \E repo \in Repos, payload \in Payloads, tag \in {None, <<>>} :
          PublishNoTag(repo, payload, tag)
    \/ \E repo \in Repos : Unpublish(repo)
    \/ \E uid \in Callers : StartCommand(uid)
    \/ \E uid \in Callers, keywords \in FilterInputs : FilterCommand(uid, keywords)
    \/ \E uid \in Callers : ClearFiltersCommand(uid)
    \/ \E uid \in Callers, dbOk \in BOOLEAN : PriorityCommand(uid, dbOk)
    \/ \E dbOk \in BOOLEAN : Restart(dbOk)

Spec == Init /\ [][Next]_vars

\* one pass after the other: a pass starts when none is running
NoPassRunning == \A t \in Tasks : task[t].pc = "idle"

\* successive checks of a repository, users setting filters
NextDetect ==
    \/ \E t \in Tasks, ok \in BOOLEAN : FetchDone(t, ok)
    \/ \E t \in Tasks, ok \in BOOLEAN : SendDone(t, ok)
    \/ \E t \in Tasks : PauseDone(t)
    \/ NoPassRunning /\ TickStart
    \/ NoPassRunning /\ ForceStart
    \/ \E repo \in Repos, payload \in Payloads : Publish(repo, payload)
    \/ \E uid \in Callers, keywords \in FilterInputs : FilterCommand(uid, keywords)

SpecDetect == Init /\ [][NextDetect]_vars

\* the scheduled tick beside a force pass, as time passes
NextRace ==
    \/ Passes
    \/ \E d \in TimeSteps : Advance(d)
    \/ \E repo \in Repos, payload \in Payloads : Publish(repo, payload)

SpecRace == Init /\ [][NextRace]_vars

\* detection across a process kill
NextCrash ==
    \/ Passes
    \/ \E repo \in Repos, payload \in Payloads : Publish(repo, payload)
    \/ \E dbOk \in BOOLEAN : Restart(dbOk)

SpecCrash == Init /\ [][NextCrash]_vars

\* fanouts of force passes while users register and edit their filters
NextFanout ==
    \/ \E t \in Tasks, ok \in BOOLEAN : FetchDone(t, ok)
    \/ \E t \in Tasks, ok \in BOOLEAN : SendDone(t, ok)
    \/ \E t \in Tasks : PauseDone(t)
    \/ ForceStart
    \/ \E repo \in Repos, payload \in Payloads : Publish(repo, payload)
    \/ \E uid \in Callers : StartCommand(uid)
    \/ \E uid \in Callers, keywords \in FilterInputs : FilterCommand(uid, keywords)
    \/ \E uid \in Callers : ClearFiltersCommand(uid)

SpecFanout == Init /\ [][NextFanout]_vars

\* ------------------------------------------------- matches_filters alone
\* characters of release texts: a lower-case letter, an upper-case letter, a
\* blank
Chars == {"a", "B", " "}
\* characters of stored keywords: set_filters lower-cases them and they come
\* from str.split(), so they hold no blank
KeywordChars == {"a", "b"}

TextsOver(chars, n) == UNION {[1..k -> chars] : k \in 0..n}

\* the stores with nothing in them and no pass running
Quiet(list) ==
    /\ REPOS = list
    /\ commands = 0
    /\ advances = 0
    /\ db = [repo \in Repos |-> NoRecord]
    /\ savePending = FALSE
    /\ users_data = [u \in UserIds |-> NoUser]
    /\ filters = <<>>
    /\ task = [t \in Tasks |-> IdleTask]
    /\ runs = 0
    /\ restarts = 0
    /\ checks = [repo \in Repos |-> <<>>]
    /\ lastFanout = NoFanout
    /\ killed = [repo \in Repos |-> <<>>]

\* a release payload and a stored keyword list, about to be matched
InitMatch ==
    /\ Quiet(SubSeq(AllRepos, 1, 1))
    /\ now = 0
    /\ upstream = [repo \in Repos |-> NoRelease]
    /\ state = [repo \in Repos |-> None]
    /\ history = <<>>
    /\ priorities = [repo \in Repos |-> DefaultPriority]
    /\ last_priority_update = 0
    /\ \E name \in TextsOver(Chars, MaxStrLen) \cup {None},
          tag \in TextsOver(Chars \ {" "}, 1) \ {<<>>},
          body \in TextsOver(Chars, 1) \cup {None},
          assets \in {<<>>} \cup {<<a>> : a \in TextsOver(Chars, 1) \ {<<>>}},
          keywords \in UNION {[1..k -> TextsOver(KeywordChars, MaxStrLen) \ {<<>>}] :
                                k \in 0..MaxKeywords} :
         probe = [release |-> [name |-> name, tag_name |-> tag, body |-> body,
                               assets |-> assets],
                  keywords |-> keywords, result |-> "none"]

\* matches_filters(release, keywords) is called
MatchCall ==
    /\ probe.result = "none"
    /\ probe' = [probe EXCEPT !.result = matches_filters(probe.release, probe.keywords)]
    /\ UNCHANGED <<REPOS, commands, now, advances, upstream, state, history,
                   priorities, last_priority_update, db, savePending, users_data,
                   filters, task, runs, restarts, checks, lastFanout, killed>>

SpecMatch == InitMatch /\ [][MatchCall]_vars

\* ------------------------------------------------- the recalculation alone
\* the history of a repository that published count releases in the window
HistoryOf(repo, count) ==
    [i \in 1..count |-> [repo_name |-> repo, tag_name |-> TagText(i),
                         published_at |-> 0]]

RECURSIVE Concat(_)
Concat(seqs) == IF seqs = <<>> THEN <<>> ELSE Head(seqs) \o Concat(Tail(seqs))

\* the process started with its rows loaded, and in the recalculation period
\* since then the passes found some releases of each repository and then
\* some fetches failed in a row; the period has just run out
InitPrio ==
    /\ Quiet(AllRepos)
    /\ now = PRIORITY_RECALC_HOURS * 60 + 1
    /\ last_priority_update = 0
    /\ probe = NoProbe
    /\ \E count \in [Repos -> 0..MaxWindowCount],
          failures \in [Repos -> 0..MaxFailures] :
         /\ history = Concat([i \in 1..Len(REPOS) |->
                                 HistoryOf(REPOS[i], count[REPOS[i]])])
         /\ upstream = [repo \in Repos |->
                IF count[repo] = 0 THEN NoRelease
                ELSE [n |-> count[repo], tag_name |-> TagText(count[repo]),
                      name |-> <<"A">>, body |-> <<"b">>, assets |-> <<>>,
                      published_at |-> 0]]
         /\ state = [repo \in Repos |->
                IF count[repo] = 0 THEN None ELSE TagText(count[repo])]
         /\ priorities = [repo \in Repos |->
                [DefaultPriority EXCEPT
                    !.update_count = count[repo],
                    !.last_update = IF count[repo] = 0 THEN -1 ELSE 0,
                    !.last_check = now,
                    !.consecutive_failures = failures[repo],
                    !.total_checks = count[repo] + failures[repo]]]

NextPrio ==
    \/ UpdatePrioritiesJob
    \/ TickStart
    \/ SaveToDb
    \/ \E dbOk \in BOOLEAN : Restart(dbOk)

SpecPrio == InitPrio /\ [][NextPrio]_vars

\* ----------------------------------------------------------------- claims
Range(f) == {f[i] : i \in 1..Len(f)}

\* C1 (as stated): when check_single_repo runs twice in succession on a
\* repository and the upstream returns the same tag both times, the first
\* call having found it novel, the second call is a no-op (not novel: no
\* fanout, no history or state write) and the history holds exactly one entry
\* for (repo, tag).
C1_SecondCheckNoOp ==
    \A repo \in Repos : \A i \in 1..(Len(checks[repo]) - 1) :
        LET e1 == checks[repo][i]
            e2 == checks[repo][i + 1]
        IN (e1.novel /\ e1.done /\ e2.done /\ e2.tag = e1.tag /\ e2.epoch = e1.epoch)
            => /\ ~e2.novel /\ ~e2.fanout /\ ~e2.added /\ ~e2.wroteState
               /\ e2.hcount = 1

\* C2 (as stated): with a scheduled tick beside a force pass, one upstream
\* tag of a repository causes exactly one fanout: no two check_single_repo
\* calls of one process run fan out the same tag.
C2_OneFanoutPerTag ==
    \A repo \in Repos : \A i, j \in 1..Len(checks[repo]) :
        (/\ i # j
         /\ checks[repo][i].tag = checks[repo][j].tag
         /\ checks[repo][i].epoch = checks[repo][j].epoch)
        => ~(checks[repo][i].fanout /\ checks[repo][j].fanout)

\* the check at index i of repo is the first of its process run to be served
\* a tag whose fanout the kill before that run cut short
FirstAfterKill(repo, i) ==
    LET e == checks[repo][i] IN
    /\ e.epoch >= 1
    /\ e.tag \in killed[repo][e.epoch]
    /\ \A j \in 1..(i - 1) :
          checks[repo][j].epoch = e.epoch => checks[repo][j].tag # e.tag

\* C3: when the process is killed after add_release and before update_tag,
\* the next check of that repository that is served the same tag finds it
\* novel again and fans it out again.
C3_RenotifiedAfterKill ==
    \A repo \in Repos : \A i \in 1..Len(checks[repo]) :
        FirstAfterKill(repo, i) => checks[repo][i].novel /\ checks[repo][i].fanout

C3_Witness ==
    \E repo \in Repos : \E i \in 1..Len(checks[repo]) :
        FirstAfterKill(repo, i) /\ checks[repo][i].fanout /\ checks[repo][i].done

\* C4 (as stated): in every fanout of a novel release, every registered user
\* who has no filter set is sent the announcement.
C4_NoFilterReach ==
    lastFanout # NoFanout =>
        \A u \in lastFanout.registered :
            get_filters(lastFanout.filt, u) = <<>> => u \in Range(lastFanout.attempted)

\* C5 (as stated): in a fanout, an active user who has a non-empty filter is
\* sent the announcement if and only if matches_filters(release, keywords) is
\* true.  Stated of the users whose keywords are the same at the fanout's
\* start and end, in fanouts during which at most one command was handled
\* (so that the keywords were the same throughout).
C5_FilteredDelivery ==
    (lastFanout # NoFanout /\ lastFanout.during <= 1) =>
        \A u \in lastFanout.active :
            LET kws == get_filters(lastFanout.filt, u) IN
            (kws # <<>> /\ get_filters(lastFanout.filtEnd, u) = kws)
            => (u \in Range(lastFanout.attempted)
                  <=> matches_filters(lastFanout.release, kws) = "True")

\* a null field read as the empty text
TextOrEmpty(x) == IF x = None THEN <<>> ELSE x

\* every keyword, lower-cased, occurs in the lower-cased text
AllOccurIn(keywords, text) ==
    \A i \in 1..Len(keywords) : IsSubstring(LowerStr(keywords[i]), LowerStr(text))

Recalculated == last_priority_update = now /\ restarts = 0

\* the adjusted score update_priorities computed for a recalculated record
ScoreOf(p) == AdjustedScore(p.update_count, p.consecutive_failures)

\* C7: in every reachable state the check_interval of every repository's
\* record lies within [MIN_CHECK_INTERVAL_MINUTES, MAX_CHECK_INTERVAL_MINUTES],
\* for the record held, the record get_priority would create, and the row
\* saved.
C7_IntervalBounds ==
    \A repo \in Repos :
        /\ GetPriority(priorities, repo).check_interval >= MIN_CHECK_INTERVAL_MINUTES
        /\ GetPriority(priorities, repo).check_interval <= MAX_CHECK_INTERVAL_MINUTES
        /\ db[repo] # NoRecord =>
              /\ db[repo].check_interval >= MIN_CHECK_INTERVAL_MINUTES
              /\ db[repo].check_interval <= MAX_CHECK_INTERVAL_MINUTES

\* a recalculated record with an interpolated interval, saved and loaded again
C7_Witness ==
    /\ restarts = 1
    /\ \E repo \in Repos :
          /\ priorities[repo] # NoRecord
          /\ priorities[repo] = db[repo]
          /\ priorities[repo].check_interval > MIN_CHECK_INTERVAL_MINUTES
          /\ priorities[repo].check_interval < MAX_CHECK_INTERVAL_MINUTES
          /\ priorities[repo].check_interval # DEFAULT_CHECK_INTERVAL_MINUTES

\* C8: the check_interval update_priorities computes is non-increasing in the
\* adjusted score: of two repositories with the same consecutive_failures,
\* the one with the higher adjusted score has no longer interval.
C8_IntervalMonotone ==
    Recalculated =>
        \A a, b \in Repos :
            (/\ priorities[a].consecutive_failures = priorities[b].consecutive_failures
             /\ ScoreOf(priorities[a]) <= ScoreOf(priorities[b]))
            => priorities[a].check_interval >= priorities[b].check_interval

C8_Witness ==
    /\ Recalculated
    /\ \E a, b \in Repos :
          /\ priorities[a].consecutive_failures = priorities[b].consecutive_failures
          /\ ScoreOf(priorities[a]) < ScoreOf(priorities[b])
          /\ ScoreOf(priorities[a]) > PRIORITY_THRESHOLD_LOW
          /\ ScoreOf(priorities[b]) < PRIORITY_THRESHOLD_HIGH
          /\ priorities[a].check_interval > priorities[b].check_interval

\* C9: for the same number of releases in the analysis window, more
\* consecutive failures never give a shorter check_interval.
C9_FailureBackoff ==
    Recalculated =>
        \A a, b \in Repos :
            (/\ priorities[a].update_count = priorities[b].update_count
             /\ priorities[a].consecutive_failures <= priorities[b].consecutive_failures)
            => priorities[a].check_interval <= priorities[b].check_interval

C9_Witness ==
    /\ Recalculated
    /\ \E a, b \in Repos :
          /\ priorities[a].update_count = priorities[b].update_count
          /\ priorities[a].consecutive_failures < priorities[b].consecutive_failures
          /\ priorities[a].check_interval < priorities[b].check_interval

\* ThresholdSpan times the interpolated interval, exactly
Interpolated(adjusted) ==
    MAX_CHECK_INTERVAL_MINUTES * ThresholdSpan
      - (adjusted - PRIORITY_THRESHOLD_LOW) * IntervalSpan

\* C10 (as stated): after update_priorities a record with adjusted score >=
\* HIGH has check_interval MIN, one with adjusted score <= LOW has MAX, and
\* otherwise check_interval equals MAX - ratio * (MAX - MIN) with
\* ratio = (adjusted - LOW) / (HIGH - LOW).
C10_ExactInterpolation ==
    Recalculated =>
        \A repo \in Repos :
            LET p == priorities[repo]
                adjusted == ScoreOf(p)
            IN IF adjusted >= PRIORITY_THRESHOLD_HIGH
               THEN p.check_interval = MIN_CHECK_INTERVAL_MINUTES
               ELSE IF adjusted <= PRIORITY_THRESHOLD_LOW
               THEN p.check_interval = MAX_CHECK_INTERVAL_MINUTES
               ELSE p.check_interval * ThresholdSpan = Interpolated(adjusted)

\* C10 (amended): after update_priorities a record with adjusted score >=
\* HIGH has check_interval MIN, one with adjusted score <= LOW has MAX, and
\* otherwise check_interval is MAX - ratio * (MAX - MIN) truncated to a whole
\* number of minutes: the largest integer not above it.
C10_TruncatedInterpolation ==
    Recalculated =>
        \A repo \in Repos :
            LET p == priorities[repo]
                adjusted == ScoreOf(p)
            IN IF adjusted >= PRIORITY_THRESHOLD_HIGH
               THEN p.check_interval = MIN_CHECK_INTERVAL_MINUTES
               ELSE IF adjusted <= PRIORITY_THRESHOLD_LOW
               THEN p.check_interval = MAX_CHECK_INTERVAL_MINUTES
               ELSE /\ p.check_interval * ThresholdSpan <= Interpolated(adjusted)
                    /\ (p.check_interval + 1) * ThresholdSpan > Interpolated(adjusted)

\* records in each of the three branches, the interpolated one not whole
C10_Witness ==
    /\ Recalculated
    /\ \E repo \in Repos :
          /\ ScoreOf(priorities[repo]) > PRIORITY_THRESHOLD_LOW
          /\ ScoreOf(priorities[repo]) < PRIORITY_THRESHOLD_HIGH
          /\ priorities[repo].check_interval * ThresholdSpan
                < Interpolated(ScoreOf(priorities[repo]))
    /\ \E repo \in Repos :
          \/ /\ ScoreOf(priorities[repo]) >= PRIORITY_THRESHOLD_HIGH
             /\ priorities[repo].check_interval = MIN_CHECK_INTERVAL_MINUTES
          \/ /\ ScoreOf(priorities[repo]) <= PRIORITY_THRESHOLD_LOW
             /\ priorities[repo].check_interval = MAX_CHECK_INTERVAL_MINUTES

\* three users have registered and two of them have set the filter "a"
\* before the startup pass begins
InitDup ==
    /\ REPOS = SubSeq(AllRepos, 1, 1)
    /\ commands = 0
    /\ now = 0
    /\ advances = 0
    /\ upstream = [repo \in Repos |-> NoRelease]
    /\ state = [repo \in Repos |-> None]
    /\ history = <<>>
    /\ priorities = [repo \in Repos |-> DefaultPriority]
    /\ last_priority_update = 0
    /\ db = [repo \in Repos |-> NoRecord]
    /\ savePending = FALSE
    /\ users_data = [u \in UserIds |-> [last_activity |-> 0]]
    /\ filters = set_filters(set_filters(<<>>, 1, << <<"A">> >>), 2, << <<"A">> >>)
    /\ task = [t \in Tasks |->
                 IF t = "force" THEN StartedTask(REPOS, 0) ELSE IdleTask]
    /\ runs = 0
    /\ restarts = 0
    /\ checks = [repo \in Repos |-> <<>>]
    /\ lastFanout = NoFanout
    /\ killed = [repo \in Repos |-> <<>>]
    /\ probe = NoProbe

\* the startup pass while any of the three users edits filters
NextDup ==
    \/ \E t \in Tasks, ok \in BOOLEAN : FetchDone(t, ok)
    \/ \E t \in Tasks, ok \in BOOLEAN : SendDone(t, ok)
    \/ \E t \in Tasks : PauseDone(t)
    \/ \E repo \in Repos, payload \in Payloads : Publish(repo, payload)
    \/ \E uid \in UserIds, keywords \in FilterInputs : FilterCommand(uid, keywords)
    \/ \E uid \in UserIds : ClearFiltersCommand(uid)

SpecDup == InitDup /\ [][NextDup]_vars

\* C13 (as stated): in a single fanout of one release no recipient is sent
\* the announcement more than once.
C13_OncePerRecipient ==
    lastFanout # NoFanout =>
        \A i, j \in 1..Len(lastFanout.attempted) :
            i # j => lastFanout.attempted[i] # lastFanout.attempted[j]

\* C11 (as stated): within one fanout a failure while delivering to or
\* evaluating one recipient never aborts the fanout: every send_notifications
\* call runs to its end.
C11_FanoutNeverAborts ==
    lastFanout # NoFanout => lastFanout.outcome = "done"

\* C12 (as stated): with a channel configured, every fanout attempts a send
\* to the channel, whatever happened to the per-user sends.
C12_ChannelAlways ==
    lastFanout # NoFanout => CHANNEL_ID \in Range(lastFanout.attempted)

\* the startup pass found no release in either repository; one user has
\* registered and set the filter "a"; DEFAULT_CHECK_INTERVAL_MINUTES later
\* both repositories are due and no pass is running
InitTick ==
    /\ REPOS = AllRepos
    /\ commands = 0
    /\ now = DEFAULT_CHECK_INTERVAL_MINUTES
    /\ advances = 0
    /\ upstream = [repo \in Repos |-> NoRelease]
    /\ state = [repo \in Repos |-> None]
    /\ history = <<>>
    /\ priorities = [repo \in Repos |->
          SetLastCheck(record_check([r \in Repos |-> DefaultPriority],
                                    repo, FALSE, 0), repo, 0)[repo]]
    /\ last_priority_update = 0
    /\ db = priorities
    /\ savePending = FALSE
    /\ users_data = [u \in UserIds |->
                       IF u = 1 THEN [last_activity |-> 0] ELSE NoUser]
    /\ filters = set_filters(<<>>, 1, << <<"A">> >>)
    /\ task = [t \in Tasks |-> IdleTask]
    /\ runs = 0
    /\ restarts = 0
    /\ checks = [repo \in Repos |-> <<>>]
    /\ lastFanout = NoFanout
    /\ killed = [repo \in Repos |-> <<>>]
    /\ probe = NoProbe

\* the scheduled ticks over the two repositories
NextTick ==
    \/ \E t \in Tasks, ok \in BOOLEAN : FetchDone(t, ok)
    \/ \E t \in Tasks, ok \in BOOLEAN : SendDone(t, ok)
    \/ \E t \in Tasks : PauseDone(t)
    \/ TickStart
    \/ \E repo \in Repos, payload \in Payloads : Publish(repo, payload)

\* every await of a pass returns: fetch_release and bot.send_message answer
\* or time out, asyncio.sleep ends
PassFairness ==
    \A t \in Tasks :
        /\ WF_vars(\E ok \in BOOLEAN : FetchDone(t, ok))
        /\ WF_vars(\E ok \in BOOLEAN : SendDone(t, ok))
        /\ WF_vars(PauseDone(t))

SpecTick == InitTick /\ [][NextTick]_vars /\ PassFairness

\* the repositories a running pass has to account for: those whose check
\* returned, the one under check, those still queued
Accounted(tk) ==
    tk.checked \o (IF tk.pc = "pause" THEN <<>> ELSE <<tk.repo>>) \o tk.queue

\* a check that failed: no release fetched, or the fanout raised and
\* check_single_repo returned through its except clause
FailedCheck(e) == e.done /\ (e.tag = None \/ (e.novel /\ ~e.wroteState))

C15_RecordUpdateOnce ==
    [][\A repo \in Repos :
          Len(checks'[repo]) = Len(checks[repo]) + 1 =>
             LET e      == checks'[repo][Len(checks'[repo])]
                 before == GetPriority(priorities, repo)
                 after  == GetPriority(priorities', repo)
             IN /\ e.novel =>
                      /\ after.update_count = before.update_count + 1
                      /\ after.last_update = now
                      /\ after.consecutive_failures = 0
                /\ (\E i \in 1..Len(checks[repo]) :
                       /\ checks[repo][i].tag = e.tag
                       /\ checks[repo][i].done
                       /\ checks[repo][i].epoch = e.epoch)
                   => after.update_count = before.update_count]_vars

\* C16 (as stated): the first check of a repository, made while the state
\* store holds no tag for it, that is served a release with a tag finds it
\* novel: the history gains the entry (repo, tag), one fanout fires, the
\* state store's tag becomes that tag, and update_count becomes 1.
C16_FirstCheckFiresAsNew ==
    \A repo \in Repos :
        (checks[repo] # <<>> /\ checks[repo][1].done /\ checks[repo][1].tag # None)
        => LET e == checks[repo][1] IN
           /\ e.novel /\ e.fanout /\ e.wroteState
           /\ e.added /\ e.hcount = 1
           /\ (Len(checks[repo]) = 1 /\ runs = 0) =>
                 /\ state[repo] = e.tag
                 /\ GetPriority(priorities, repo).update_count = 1

\* passes one after the other across process kills, as releases are
\* published and time passes
NextHistory ==
    \/ \E t \in Tasks, ok \in BOOLEAN : FetchDone(t, ok)
    \/ \E t \in Tasks, ok \in BOOLEAN : SendDone(t, ok)
    \/ \E t \in Tasks : PauseDone(t)
    \/ NoPassRunning /\ TickStart
    \/ NoPassRunning /\ ForceStart
    \/ \E d \in TimeSteps : Advance(d)
    \/ \E repo \in Repos, payload \in Payloads : Publish(repo, payload)
    \/ \E dbOk \in BOOLEAN : Restart(dbOk)

SpecHistory == Init /\ [][NextHistory]_vars

\* C17: in every reachable state the history holds at most one entry per
\* (repo_name, tag_name), whatever checks, re-detections, prunings and
\* restarts came before.
C17_HistoryUnique ==
    \A i, j \in 1..Len(history) :
        (history[i].repo_name = history[j].repo_name
           /\ history[i].tag_name = history[j].tag_name) => i = j

\* a release found novel a second time, after a kill cut its first fanout
\* short, while the history already held its entry
C17_Witness ==
    \E repo \in Repos : \E i \in 1..Len(checks[repo]) :
        /\ FirstAfterKill(repo, i)
        /\ checks[repo][i].novel /\ checks[repo][i].done
        /\ ~checks[repo][i].added
        /\ checks[repo][i].hcount = 1

\* a check_single_repo call on repo is between its start and its return
CheckInProgress(repo) ==
    \E t \in Tasks : task[t].pc \in {"fetch", "send"} /\ task[t].repo = repo

\* C18 (as stated): whenever no check of a repository is in progress, the
\* state store's tag for it, if present, is the tag of the entry most
\* recently added to the history for that repository.
C18_StateMatchesHistory ==
    \A repo \in Repos :
        (state[repo] # None /\ ~CheckInProgress(repo)) =>
            \E i \in 1..Len(history) :
                /\ history[i].repo_name = repo
                /\ history[i].tag_name = state[repo]
                /\ \A j \in (i + 1)..Len(history) : history[j].repo_name # repo

\* the record's interval came from the interpolation of update_priorities
InterpolatedRecord(p) ==
    /\ p.check_interval > MIN_CHECK_INTERVAL_MINUTES
    /\ p.check_interval < MAX_CHECK_INTERVAL_MINUTES
    /\ p.check_interval # DEFAULT_CHECK_INTERVAL_MINUTES

\* C19: a step of a check (record_check, record_update, the pass's
\* last_check update) leaves check_interval and priority_score of every
\* repository as they were; they change only where update_priorities runs,
\* at the start of a tick.
C19_ChecksKeepScore ==
    [][(runs' = runs /\ restarts' = restarts) =>
          \A repo \in Repos :
              /\ GetPriority(priorities', repo).check_interval
                    = GetPriority(priorities, repo).check_interval
              /\ GetPriority(priorities', repo).priority_score
                    = GetPriority(priorities, repo).priority_score]_vars

\* a check found a release novel on a record whose interval had been
\* recalculated, and has returned
C19_Witness ==
    \E t \in Tasks :
        /\ task[t].pc = "pause"
        /\ InterpolatedRecord(GetPriority(priorities, task[t].repo))
        /\ LET log == checks[task[t].repo] IN
           /\ log # <<>>
           /\ log[Len(log)].by = t
           /\ log[Len(log)].novel /\ log[Len(log)].done
           /\ GetPriority(priorities, task[t].repo).update_count = 2

\* /checkall while the ticks run over the two repositories
NextForce ==
    \/ \E t \in Tasks, ok \in BOOLEAN : FetchDone(t, ok)
    \/ \E t \in Tasks, ok \in BOOLEAN : SendDone(t, ok)
    \/ \E t \in Tasks : PauseDone(t)
    \/ NoPassRunning /\ TickStart
    \/ ForceStart
    \/ \E repo \in Repos, payload \in Payloads : Publish(repo, payload)

SpecForce == InitTick /\ [][NextForce]_vars

Responses ==
    { [status |-> st, reset |-> -1] : st \in {"200", "404", "500", "lost"} }
      \cup { [status |-> st, reset |-> r] : st \in {"403", "429"}, r \in {-1, 120} }

\* a fetch_release call at its first request
NewFetch == [attempt |-> 0, log |-> <<>>, result |-> "none"]

\* the startup pass at its first fetch, of a repository with a release
InitFetch ==
    /\ REPOS = SubSeq(AllRepos, 1, 1)
    /\ commands = 0
    /\ now = 0
    /\ advances = 0
    /\ \E payload \in Payloads :
          upstream = [repo \in Repos |->
              [n |-> 1, tag_name |-> TagText(1), name |-> payload.name,
               body |-> payload.body, assets |-> payload.assets,
               published_at |-> 0]]
    /\ state = [repo \in Repos |-> None]
    /\ history = <<>>
    /\ priorities = [repo \in Repos |-> DefaultPriority]
    /\ last_priority_update = 0
    /\ db = [repo \in Repos |-> NoRecord]
    /\ savePending = FALSE
    /\ users_data = [u \in UserIds |->
                       IF u = 1 THEN [last_activity |-> 0] ELSE NoUser]
    /\ filters = <<>>
    /\ task = [t \in Tasks |->
                 IF t = "force" THEN StartedTask(REPOS, 0) ELSE IdleTask]
    /\ runs = 0
    /\ restarts = 0
    /\ checks = [repo \in Repos |-> <<>>]
    /\ lastFanout = NoFanout
    /\ killed = [repo \in Repos |-> <<>>]
    /\ probe = NewFetch

\* a fetch_release that does not count a rate-limited request as an attempt
FetchAttempt_RetryRateLimit(r) ==
    LET last  == probe.attempt = MAX_RETRIES - 1
        wait  == IF r.status = "403" THEN Max(r.reset, RATE_LIMIT_MIN_WAIT)
                 ELSE IF r.status \in {"200", "404"} \/ last THEN 0
                 ELSE RETRY_DELAY * (probe.attempt + 1)
        res   == IF r.status = "200" THEN "data"
                 ELSE IF r.status = "403" THEN "none"
                 ELSE IF r.status = "404" \/ last THEN "None"
                 ELSE "none"
    IN
    /\ \E t \in Tasks : task[t].pc = "fetch"
    /\ probe.result = "none"
    /\ probe' = [attempt |-> IF r.status = "403" THEN probe.attempt
                             ELSE probe.attempt + 1,
                 log     |-> Append(probe.log,
                                [status |-> r.status, reset |-> r.reset,
                                 slept |-> wait, again |-> res = "none"]),
                 result  |-> res]
    /\ UNCHANGED <<REPOS, commands, now, advances, upstream, state, history,
                   priorities, last_priority_update, db, savePending, users_data,
                   filters, task, runs, restarts, checks, lastFanout, killed>>

\* a fetch_release that handles a 404 like any other unexpected status
FetchAttempt_RetryNotFound(r) ==
    LET last  == probe.attempt = MAX_RETRIES - 1
        wait  == IF r.status = "403" THEN Max(r.reset, RATE_LIMIT_MIN_WAIT)
                 ELSE IF r.status = "200" \/ last THEN 0
                 ELSE RETRY_DELAY * (probe.attempt + 1)
        res   == IF r.status = "200" THEN "data"
                 ELSE IF last THEN "None"
                 ELSE "none"
    IN
    /\ \E t \in Tasks : task[t].pc = "fetch"
    /\ probe.result = "none"
    /\ probe' = [attempt |-> probe.attempt + 1,
                 log     |-> Append(probe.log,
                                [status |-> r.status, reset |-> r.reset,
                                 slept |-> wait, again |-> res = "none"]),
                 result  |-> res]
    /\ UNCHANGED <<REPOS, commands, now, advances, upstream, state, history,
                   priorities, last_priority_update, db, savePending, users_data,
                   filters, task, runs, restarts, checks, lastFanout, killed>>

\* one turn of fetch_release's "for attempt in range(MAX_RETRIES)": the
\* request is answered by r, and the call returns the data, returns None, or
\* sleeps and goes to the next attempt; after the last attempt it returns
\* None.  slept is the sleep of this turn in seconds, again whether another
\* request follows it
FetchAttempt(r) ==
    LET last  == probe.attempt = MAX_RETRIES - 1
        wait  == IF r.status = "403" THEN Max(r.reset, RATE_LIMIT_MIN_WAIT)
                 ELSE IF r.status \in {"200", "404"} \/ last THEN 0
                 ELSE RETRY_DELAY * (probe.attempt + 1)
        res   == IF r.status = "200" THEN "data"
                 ELSE IF r.status = "404" \/ last THEN "None"
                 ELSE "none"
    IN
    /\ \E t \in Tasks : task[t].pc = "fetch"
    /\ probe.result = "none"
    /\ probe' = [attempt |-> probe.attempt + 1,
                 log     |-> Append(probe.log,
                                [status |-> r.status, reset |-> r.reset,
                                 slept |-> wait, again |-> res = "none"]),
                 result  |-> res]
    /\ UNCHANGED <<REPOS, commands, now, advances, upstream, state, history,
                   priorities, last_priority_update, db, savePending, users_data,
                   filters, task, runs, restarts, checks, lastFanout, killed>>

\* fetch_release returns to check_single_repo
FetchReturn(t) ==
    /\ probe.result # "none"
    /\ FetchDone(t, probe.result = "data")

NextFetch ==
    \/ \E r \in Responses : FetchAttempt(r)
    \/ \E t \in Tasks : FetchReturn(t)
    \/ \E t \in Tasks, ok \in BOOLEAN : SendDone(t, ok)
    \/ \E t \in Tasks : PauseDone(t)

SpecFetch == InitFetch /\ [][NextFetch]_vars

\* the upstream's rate-limit answers
RateLimited(e) == e.status = "429" \/ e.status = "403"

\* C21 (as stated): when the upstream answers a request of fetch_release
\* with a rate-limit response, the call sleeps (until the reset time, or a
\* minimum backoff) and then sends the request again; the response does not
\* end the fetch, and a check whose fetch was rate-limited is not recorded
\* as a failed check.
C21_RateLimitBacksOff ==
    /\ \A i \in 1..Len(probe.log) :
          RateLimited(probe.log[i]) =>
              /\ probe.log[i].slept > 0
              /\ probe.log[i].again
    /\ \A repo \in Repos :
          (checks[repo] # <<>> /\ \E i \in 1..Len(probe.log) : RateLimited(probe.log[i]))
              => /\ checks[repo][1].tag # None
                 /\ GetPriority(priorities, repo).consecutive_failures = 0

\* ------------------------------------------------- the stores' load at start
\* the persisted stores read by the managers' constructors
Stores == {"state", "history", "filters", "users"}

\* what a store's file is like when the process starts: intact; cut short
\* (json.load raises JSONDecodeError); unreadable (open or read raises
\* IOError); or holding bytes that are not UTF-8 (read raises
\* UnicodeDecodeError, a ValueError)
FileConditions == {"intact", "truncated", "unreadable", "undecodable"}

\* _load_state, _load_history, _load_filters, _load_users: the content, the
\* empty default when JSONDecodeError or IOError is caught, or the exception
\* that neither except clause catches
LoadStore(condition, content, default) ==
    IF condition = "intact" THEN [raised |-> FALSE, value |-> content]
    ELSE IF condition \in {"truncated", "unreadable"}
    THEN [raised |-> FALSE, value |-> default]
    ELSE [raised |-> TRUE, value |-> default]

\* The process is killed and started again with its store files as files
\* says.  The managers are built at import: an exception there ends the
\* process before main() runs.  Otherwise as Restart.
RestartFrom(files, dbOk) ==
    LET st == LoadStore(files["state"], state, [repo \in Repos |-> None])
        hi == LoadStore(files["history"], history, <<>>)
        fi == LoadStore(files["filters"], Live(filters), <<>>)
        us == LoadStore(files["users"], users_data, [u \in UserIds |-> NoUser])
        crashed == st.raised \/ hi.raised \/ fi.raised \/ us.raised
    IN
    /\ probe.result # "crashed"
    /\ restarts < MaxRestarts
    /\ restarts' = restarts + 1
    /\ killed' = [repo \in Repos |-> Append(killed[repo], CutTags(repo))]
    /\ savePending' = FALSE
    /\ probe' = [result |-> IF crashed THEN "crashed" ELSE "loaded", files |-> files]
    /\ IF crashed
       THEN /\ task' = [t \in Tasks |-> IdleTask]
            /\ UNCHANGED <<state, history, filters, users_data, priorities,
                           last_priority_update>>
       ELSE /\ state' = st.value
            /\ history' = hi.value
            /\ filters' = fi.value
            /\ users_data' = us.value
            /\ priorities' = IF dbOk THEN LoadPriorities(db)
                             ELSE [repo \in Repos |-> NoRecord]
            /\ last_priority_update' = IF dbOk THEN now ELSE -1
            /\ task' = [t \in Tasks |->
                          IF t = "force" THEN StartedTask(REPOS, now) ELSE IdleTask]
    /\ UNCHANGED <<REPOS, commands, now, advances, upstream, db, runs, checks,
                   lastFanout>>

\* the startup pass, a user setting a filter, and a restart with one of the
\* store files in any condition
NextLoad ==
    \/ \E t \in Tasks, ok \in BOOLEAN : FetchDone(t, ok)
    \/ \E t \in Tasks, ok \in BOOLEAN : SendDone(t, ok)
    \/ \E t \in Tasks : PauseDone(t)
    \/ \E repo \in Repos, payload \in Payloads : Publish(repo, payload)
    \/ \E uid \in Callers, keywords \in FilterInputs :
          probe.result # "crashed" /\ FilterCommand(uid, keywords)
    \/ \E store \in Stores, condition \in FileConditions, dbOk \in BOOLEAN :
          RestartFrom([s \in Stores |-> IF s = store THEN condition ELSE "intact"],
                      dbOk)

SpecLoad == Init /\ [][NextLoad]_vars

\* C22 (as stated): when the process starts and a store's file is corrupted
\* or unreadable, the process does not crash and that store starts from its
\* empty default.
C22_CorruptStoreFallsBack ==
    [][restarts' = restarts + 1 =>
          /\ probe'.result # "crashed"
          /\ probe'.files["state"] # "intact"
                => state' = [repo \in Repos |-> None]
          /\ probe'.files["history"] # "intact" => history' = <<>>
          /\ probe'.files["filters"] # "intact" => filters' = <<>>
          /\ probe'.files["users"] # "intact"
                => users_data' = [u \in UserIds |-> NoUser]]_vars

\* C23: in a check that finds a release novel the history entry is added and
\* record_update has run before the fanout sends anything, and the state
\* store gets the tag only in the step that ends a fanout of that tag which
\* ran to its end.
C23_StepOrder ==
    /\ [](\A t \in Tasks :
            task[t].pc = "send" =>
               /\ InHistory(history, task[t].repo, task[t].release.tag_name)
               /\ GetPriority(priorities, task[t].repo).last_update # -1
               /\ checks[task[t].repo][task[t].idx].novel
               /\ ~checks[task[t].repo][task[t].idx].wroteState
               /\ state[task[t].repo] # task[t].release.tag_name)
    /\ [][\A repo \in Repos :
            state'[repo] # state[repo] =>
               \E t \in Tasks :
                  /\ task[t].pc = "send" /\ task[t].repo = repo
                  /\ task'[t].pc = "pause"
                  /\ state'[repo] = task[t].release.tag_name
                  /\ lastFanout'.outcome = "done"
                  /\ lastFanout'.release = task[t].release
                  /\ lastFanout'.attempted # <<>>]_vars

\* a fanout sent to a user and to the channel, and then the state store got
\* the tag
C23_Witness ==
    /\ lastFanout # NoFanout
    /\ lastFanout.outcome = "done"
    /\ Len(lastFanout.attempted) >= 2
    /\ state[lastFanout.repo] = lastFanout.release.tag_name
    /\ InHistory(history, lastFanout.repo, lastFanout.release.tag_name)

\* C24 (as stated): when a bot.send_message of a fanout fails, the check
\* still completes with the state store holding the new tag, so that a
\* later check served the same tag does not find it novel and fans nothing
\* out.
C24_FailedDeliveryNoRepeat ==
    (lastFanout # NoFanout /\ lastFanout.failed) =>
        /\ lastFanout.outcome = "done"
        /\ ~IsNovel(state, history, lastFanout.repo, lastFanout.release.tag_name)

\* the number of failed checks at the end of a repository's log
RECURSIVE TrailingFailures(_)
TrailingFailures(log) ==
    IF log = <<>> \/ log[Len(log)].tag # None THEN 0
    ELSE 1 + TrailingFailures(SubSeq(log, 1, Len(log) - 1))

C26_LastCheckIsTickNow ==
    [][(task["tick"].pc = "pause" /\ task'["tick"].pc = "idle") =>
          \A i \in 1..Len(task["tick"].checked) :
              LET p == GetPriority(priorities', task["tick"].checked[i]) IN
              /\ p.last_check = task["tick"].current_time
              /\ ~IsDue(p, task["tick"].current_time + p.check_interval - 1)]_vars

\* ------------------------------------------------ the tick's selection alone
\* last_check values of a record at minute DEFAULT_CHECK_INTERVAL_MINUTES:
\* never checked, checked a full default interval ago, a tick period ago,
\* just now
LastChecks ==
    {-1, 0, DEFAULT_CHECK_INTERVAL_MINUTES - MIN_CHECK_INTERVAL_MINUTES,
     DEFAULT_CHECK_INTERVAL_MINUTES}

\* check_interval values of a record
Intervals ==
    {MIN_CHECK_INTERVAL_MINUTES, DEFAULT_CHECK_INTERVAL_MINUTES,
     MAX_CHECK_INTERVAL_MINUTES}

\* no pass is running; the records hold any of these last_check and
\* check_interval values; a recalculation is pending or not
InitGate ==
    /\ Quiet(AllRepos)
    /\ now = DEFAULT_CHECK_INTERVAL_MINUTES
    /\ probe = NoProbe
    /\ upstream = [repo \in Repos |-> NoRelease]
    /\ state = [repo \in Repos |-> None]
    /\ history = <<>>
    /\ last_priority_update \in {-1, 0}
    /\ \E lc \in [Repos -> LastChecks], ci \in [Repos -> Intervals] :
          priorities = [repo \in Repos |->
              [DefaultPriority EXCEPT !.last_check = lc[repo],
                                      !.check_interval = ci[repo],
                                      !.total_checks = IF lc[repo] = -1 THEN 0 ELSE 1]]

SpecGate == InitGate /\ [][NextTick]_vars

NextRecalc ==
    \/ \E t \in Tasks, ok \in BOOLEAN : FetchDone(t, ok)
    \/ \E t \in Tasks : PauseDone(t)
    \/ TickStart
    \/ UpdatePrioritiesJob
    \/ SaveToDb
    \/ \E d \in TimeSteps : Advance(d)
    \/ \E uid \in Callers, dbOk \in BOOLEAN : PriorityCommand(uid, dbOk)

SpecRecalc == InitTick /\ [][NextRecalc]_vars

\* C28 (as stated): should_update_priorities is true exactly when no
\* recalculation was ever performed (no timestamp) or more than
\* PRIORITY_RECALC_HOURS have passed since the last one, and the timestamp
\* of the last recalculation changes only in a step that recalculates the
\* priorities from the history.
C28_RecalcStamp ==
    /\ [](should_update_priorities(last_priority_update, now)
            <=> \/ last_priority_update = -1
                \/ now - last_priority_update > PRIORITY_RECALC_HOURS * 60)
    /\ [][last_priority_update' # last_priority_update
            => priorities' = update_priorities(priorities, history, now)]_vars

\* C29 (as stated): update_count counts the releases ever recorded for a
\* repository: no step of the checks, updates and recalculations lowers it,
\* and a step that changes it adds exactly 1.
C29_UpdateCountGrowsByOne ==
    [][\A repo \in Repos :
          LET before == GetPriority(priorities, repo).update_count
              after  == GetPriority(priorities', repo).update_count
          IN after = before \/ after = before + 1]_vars

\* successive forced checks of a repository while releases with and
\* without a tag come out
NextNoTag ==
    \/ \E t \in Tasks, ok \in BOOLEAN : FetchDone(t, ok)
    \/ \E t \in Tasks, ok \in BOOLEAN : SendDone(t, ok)
    \/ \E t \in Tasks : PauseDone(t)
    \/ NoPassRunning /\ ForceStart
    \/ \E repo \in Repos, payload \in Payloads : Publish(repo, payload)
    \/ \E repo \in Repos, payload \in Payloads, tag \in {None, <<>>} :
          PublishNoTag(repo, payload, tag)

SpecNoTag == Init /\ [][NextNoTag]_vars

\* C30: the step of a check whose fetch failed or returned a release
\* without a tag leaves the state store, the history store and the
\* repository's update_count and last_update as they were, begins no
\* notification fanout, and the check is over with that step.
C30_NoActionOnFailedFetch ==
    [][\A repo \in Repos :
          (/\ Len(checks'[repo]) = Len(checks[repo]) + 1
           /\ checks'[repo][Len(checks'[repo])].tag \in {None, <<>>})
          => /\ state' = state
             /\ history' = history
             /\ GetPriority(priorities', repo).update_count
                   = GetPriority(priorities, repo).update_count
             /\ GetPriority(priorities', repo).last_update
                   = GetPriority(priorities, repo).last_update
             /\ lastFanout' = lastFanout
             /\ \A t \in Tasks : task'[t].pc = "send" => task[t].pc = "send"
             /\ checks'[repo][Len(checks'[repo])].done]_vars

\* a repository with a recorded release was checked twice more: the fetch
\* failed, then it returned a release without a tag; the stores and the
\* record's update fields are those of the recorded release
C30_Witness ==
    \E repo \in Repos :
        /\ Len(checks[repo]) >= 3
        /\ \E i \in 1..(Len(checks[repo]) - 1) :
              /\ checks[repo][i].tag = None
              /\ checks[repo][i + 1].tag = <<>>
              /\ state[repo] = TagText(1)
              /\ HistoryCount(history, repo, TagText(1)) = 1
              /\ GetPriority(priorities, repo).update_count = 1

\* ------------------------------------------------------ add_release alone
\* a history entry or release of a repository: published at the start of
\* the retention window's clock or at the time of the call
DrawnEntries(t) ==
    [repo_name : Repos, tag_name : {TagText(n) : n \in 1..MaxTag},
     published_at : {0, t}]

\* a history as the process may hold it in memory (entries older than the
\* retention window included: they are dropped only by a save), and a
\* release about to be added, on the day of the oldest entry or once the
\* retention window has passed over it
InitAdd ==
    /\ Quiet(AllRepos)
    /\ now \in {0, (HISTORY_DAYS + 1) * MinutesPerDay}
    /\ upstream = [repo \in Repos |-> NoRelease]
    /\ state = [repo \in Repos |-> None]
    /\ priorities = [repo \in Repos |-> DefaultPriority]
    /\ last_priority_update = 0
    /\ history \in UNION {[1..k -> DrawnEntries(now)] : k \in 0..MaxHistoryLen}
    /\ \A i, j \in 1..Len(history) :
          (/\ history[i].repo_name = history[j].repo_name
           /\ history[i].tag_name = history[j].tag_name) => i = j
    /\ \E r \in DrawnEntries(now) :
          probe = [repo |-> r.repo_name,
                   release |-> [tag_name |-> r.tag_name, published_at |-> r.published_at],
                   before |-> history, called |-> FALSE, wrote |-> FALSE,
                   result |-> FALSE]

\* history_manager.add_release(repo, release) is called.  When the release
\* is appended _save_history runs: it writes the pruned list and keeps it
\* (ok), or the write raises IOError, which is logged, and the list stays as
\* appended
AddCall(ok) ==
    LET present  == InHistory(history, probe.repo, probe.release.tag_name)
        appended == Append(history, [repo_name |-> probe.repo,
                                     tag_name |-> probe.release.tag_name,
                                     published_at |-> probe.release.published_at])
    IN
    /\ ~probe.called
    /\ history' = IF ok THEN add_release(history, probe.repo, probe.release, now)
                  ELSE IF present THEN history ELSE appended
    /\ probe' = [probe EXCEPT
                   !.called = TRUE,
                   !.wrote = ok /\ ~present,
                   !.result = ~present]
    /\ UNCHANGED <<REPOS, commands, now, advances, upstream, state, priorities,
                   last_priority_update, db, savePending, users_data, filters,
                   task, runs, restarts, checks, lastFanout, killed>>

SpecAdd == InitAdd /\ [][\E ok \in BOOLEAN : AddCall(ok)]_vars

\* C31 (as stated): add_release on a (repo, tag) already present returns
\* False and leaves the history as it was; on a (repo, tag) not present it
\* returns True and the history then holds an entry for it.
C31_AddIdempotent ==
    probe.called =>
        IF InHistory(probe.before, probe.repo, probe.release.tag_name)
        THEN ~probe.result /\ history = probe.before
        ELSE probe.result
             /\ InHistory(history, probe.repo, probe.release.tag_name)

\* the oldest publication time the retention window holds
Cutoff(t) == t - HISTORY_DAYS * MinutesPerDay

\* C32: after every write of the history store, the history holds no entry
\* published before the retention cutoff, and every entry held before the
\* write that was published at or after the cutoff is still held.
C32_PruneOnWrite ==
    (probe.called /\ probe.wrote) =>
        /\ \A i \in 1..Len(history) : history[i].published_at >= Cutoff(now)
        /\ \A i \in 1..Len(probe.before) :
              probe.before[i].published_at >= Cutoff(now)
              => \E j \in 1..Len(history) : history[j] = probe.before[i]

\* the history held an entry older than the window and one inside it; a
\* release was added and written: the old entry is gone, the other two are
\* held
C32_Witness ==
    /\ probe.called /\ probe.wrote
    /\ Len(probe.before) = 2
    /\ probe.before[1].published_at < Cutoff(now)
    /\ probe.before[2].published_at >= Cutoff(now)
    /\ Len(history) = 2
    /\ history[1] = probe.before[2]
    /\ history[2].tag_name = probe.release.tag_name
    /\ history[2].repo_name = probe.repo

\* C33: whatever the upstream answers, fetch_release sends at most
\* MAX_RETRIES requests: after the MAX_RETRIES-th it has returned; and a
\* call that used up its attempts without data returns None, which the
\* check records as a failed check.
C33_BoundedRetries ==
    /\ Len(probe.log) <= MAX_RETRIES
    /\ Len(probe.log) = MAX_RETRIES => probe.result # "none"
    /\ (Len(probe.log) = MAX_RETRIES /\ probe.log[MAX_RETRIES].status # "200")
          => /\ probe.result = "None"
             /\ \A repo \in Repos :
                   checks[repo] # <<>>
                   => /\ checks[repo][1].tag = None
                      /\ GetPriority(priorities, repo).consecutive_failures = 1
                      /\ GetPriority(priorities, repo).total_checks = 1

\* a timeout, a server error and a rate limit used up the attempts, and the
\* check was recorded as failed
C33_Witness ==
    /\ Len(probe.log) = MAX_RETRIES
    /\ probe.log[1].status = "lost"
    /\ probe.log[2].status = "500"
    /\ probe.log[3].status = "403"
    /\ \E repo \in Repos :
          /\ checks[repo] # <<>>
          /\ checks[repo][1].tag = None
          /\ GetPriority(priorities, repo).consecutive_failures = 1

\* ------------------------------------------------ the state store's save
\* the state file: its whole content as json.dump wrote it, or what an
\* interrupted or failed write leaves: nothing (open(file, "w") truncates)
\* or the beginning of the new content
WholeFile(content) == [kind |-> "complete", content |-> content]

\* _load_state: the file's content, or the empty dict when json.load raises
\* JSONDecodeError on an empty or partial file
LoadState(file) ==
    IF file.kind = "complete" THEN file.content ELSE [repo \in Repos |-> None]

\* the process runs with the state store loaded from its file; no save is
\* under way
InitSave ==
    /\ Quiet(AllRepos)
    /\ now = 0
    /\ upstream = [repo \in Repos |-> NoRelease]
    /\ state \in [Repos -> {None, TagText(1)}]
    /\ history = <<>>
    /\ priorities = [repo \in Repos |-> DefaultPriority]
    /\ last_priority_update = 0
    /\ probe = [pc |-> "idle", file |-> WholeFile(state), bak |-> WholeFile(state),
                prev |-> state, saves |-> 0, attempts |-> 0, failed |-> FALSE,
                outcome |-> "none", loaded |-> FALSE, next |-> state]

\* update_tag(repo, tag): the tag is set in memory and _save_state begins
UpdateTag(repo, tag) ==
    /\ probe.pc = "idle"
    /\ probe.saves < MaxSaves
    /\ state' = [state EXCEPT ![repo] = tag]
    /\ probe' = [probe EXCEPT !.pc = "backup", !.prev = LoadState(probe.file),
                              !.saves = @ + 1, !.attempts = 1, !.failed = FALSE,
                              !.outcome = "none", !.loaded = FALSE]
    /\ UNCHANGED <<REPOS, commands, now, advances, upstream, history, priorities,
                   last_priority_update, db, savePending, users_data, filters,
                   task, runs, restarts, checks, lastFanout, killed>>

\* _save_state gives up: the IOError is caught and logged, and update_tag
\* returns
SaveFailed(pr) ==
    [pr EXCEPT !.pc = "idle", !.failed = TRUE, !.outcome = "returned"]

\* shutil.copy2 of the state file to its .bak, or its IOError
BackupDone(ok) ==
    /\ probe.pc = "backup"
    /\ probe' = IF ok THEN [probe EXCEPT !.pc = "open", !.bak = probe.file]
                ELSE SaveFailed(probe)
    /\ UNCHANGED <<REPOS, commands, now, advances, upstream, state, history,
                   priorities, last_priority_update, db, savePending, users_data,
                   filters, task, runs, restarts, checks, lastFanout, killed>>

\* open(state_file, "w"): the file is truncated, or the open raises IOError
\* and the file is left alone
OpenDone(ok) ==
    /\ probe.pc = "open"
    /\ probe' = IF ok THEN [probe EXCEPT !.pc = "dump", !.file = [kind |-> "empty"]]
                ELSE SaveFailed(probe)
    /\ UNCHANGED <<REPOS, commands, now, advances, upstream, state, history,
                   priorities, last_priority_update, db, savePending, users_data,
                   filters, task, runs, restarts, checks, lastFanout, killed>>

\* json.dump has written the beginning of the content to the file
DumpSome ==
    /\ probe.pc = "dump"
    /\ probe.file.kind = "empty"
    /\ probe' = [probe EXCEPT !.file = [kind |-> "partial"]]
    /\ UNCHANGED <<REPOS, commands, now, advances, upstream, state, history,
                   priorities, last_priority_update, db, savePending, users_data,
                   filters, task, runs, restarts, checks, lastFanout, killed>>

\* json.dump and the close of the file end: the content is written, or a
\* write raises IOError and the file stays as far as it was written
DumpDone(ok) ==
    /\ probe.pc = "dump"
    /\ probe' = IF ok THEN [probe EXCEPT !.pc = "idle", !.file = WholeFile(state),
                                         !.outcome = "returned"]
                ELSE SaveFailed(probe)
    /\ UNCHANGED <<REPOS, commands, now, advances, upstream, state, history,
                   priorities, last_priority_update, db, savePending, users_data,
                   filters, task, runs, restarts, checks, lastFanout, killed>>

\* the process is killed, at any point of a save or between saves, and
\* started again: the state store is loaded from its file
KillAndLoad ==
    /\ restarts < MaxRestarts
    /\ restarts' = restarts + 1
    /\ state' = LoadState(probe.file)
    /\ probe' = [probe EXCEPT !.pc = "idle", !.loaded = TRUE,
                              !.next = state]
    /\ UNCHANGED <<REPOS, commands, now, advances, upstream, history, priorities,
                   last_priority_update, db, savePending, users_data, filters,
                   task, runs, checks, lastFanout, killed>>

NextSave ==
    \/ \E repo \in Repos, n \in 1..MaxTag : UpdateTag(repo, TagText(n))
    \/ \E ok \in BOOLEAN : BackupDone(ok)
    \/ \E ok \in BOOLEAN : OpenDone(ok)
    \/ DumpSome
    \/ \E ok \in BOOLEAN : DumpDone(ok)
    \/ KillAndLoad

SpecSave == InitSave /\ [][NextSave]_vars

\* C34 (as stated): a save whose write failed was attempted a second time
\* before it was given up, and it ended with the failure logged and the
\* caller going on.
C34_WriteRetriedOnce ==
    (probe.pc = "idle" /\ probe.failed)
        => probe.attempts = 2 /\ probe.outcome = "returned"

\* C35 (as stated): at every point of a save the state file holds the
\* complete previous content or the complete new content, so a process
\* started after a kill loads one of the two.
C35_AtomicWrite ==
    /\ probe.file.kind = "complete"
    /\ probe.loaded => state \in {probe.prev, probe.next}

\* ------------------------------------------------- the filter store alone
\* user 1 is registered and active, a repository has a release that no
\* check has seen yet, and no pass is running
InitFilterStore ==
    /\ REPOS = SubSeq(AllRepos, 1, 1)
    /\ commands = 0
    /\ now = 0
    /\ advances = 0
    /\ \E payload \in Payloads :
          upstream = [repo \in Repos |->
              [n |-> 1, tag_name |-> TagText(1), name |-> payload.name,
               body |-> payload.body, assets |-> payload.assets,
               published_at |-> 0]]
    /\ state = [repo \in Repos |-> None]
    /\ history = <<>>
    /\ priorities = [repo \in Repos |-> DefaultPriority]
    /\ last_priority_update = 0
    /\ db = [repo \in Repos |-> NoRecord]
    /\ savePending = FALSE
    /\ users_data = [u \in UserIds |->
                       IF u = 1 THEN [last_activity |-> 0] ELSE NoUser]
    \* filter_manager.filters as loaded from its file: no entry for user 1,
    \* a keyword list, or an empty list
    /\ filters \in { <<>>, << <<1, << <<"a">> >> >> >>, << <<1, <<>> >> >> }
    /\ task = [t \in Tasks |-> IdleTask]
    /\ runs = 0
    /\ restarts = 0
    /\ checks = [repo \in Repos |-> <<>>]
    /\ lastFanout = NoFanout
    /\ killed = [repo \in Repos |-> <<>>]
    /\ probe = [called |-> FALSE, op |-> "none", keywords |-> <<>>,
                before |-> filters]

\* filter_manager.set_filters("1", keywords) is called between passes
SetCall(keywords) ==
    /\ ~probe.called
    /\ NoPassRunning
    /\ filters' = set_filters(filters, 1, keywords)
    /\ probe' = [probe EXCEPT !.called = TRUE, !.op = "set",
                              !.keywords = keywords, !.before = filters]
    /\ UNCHANGED <<REPOS, commands, now, advances, upstream, state, history,
                   priorities, last_priority_update, db, savePending, users_data,
                   task, runs, restarts, checks, lastFanout, killed>>

\* filter_manager.clear_filters("1") is called between passes
ClearCall ==
    /\ ~probe.called
    /\ NoPassRunning
    /\ filters' = clear_filters(filters, 1)
    /\ probe' = [probe EXCEPT !.called = TRUE, !.op = "clear", !.before = filters]
    /\ UNCHANGED <<REPOS, commands, now, advances, upstream, state, history,
                   priorities, last_priority_update, db, savePending, users_data,
                   task, runs, restarts, checks, lastFanout, killed>>

NextFilterStore ==
    \* keyword lists handed to set_filters: none, a blank keyword, a keyword
    \* to trim and lower-case, a keyword beside an empty one
    \/ \E keywords \in { <<>>, << <<" ">> >>, << <<" ", "B">> >>, << <<"a">>, <<>> >> } :
          SetCall(keywords)
    \/ ClearCall
    \/ NoPassRunning /\ ForceStart
    \/ \E t \in Tasks, ok \in BOOLEAN : FetchDone(t, ok)
    \/ \E t \in Tasks, ok \in BOOLEAN : SendDone(t, ok)
    \/ \E t \in Tasks : PauseDone(t)

SpecFilterStore == InitFilterStore /\ [][NextFilterStore]_vars

NextRevert ==
    \/ \E t \in Tasks, ok \in BOOLEAN : FetchDone(t, ok)
    \/ \E t \in Tasks, ok \in BOOLEAN : SendDone(t, ok)
    \/ \E t \in Tasks : PauseDone(t)
    \/ NoPassRunning /\ ForceStart
    \/ \E repo \in Repos, payload \in Payloads : Publish(repo, payload)
    \/ \E repo \in Repos : Unpublish(repo)

SpecRevert == Init /\ [][NextRevert]_vars

\* C37: a check that fetched a tagged release finds it novel exactly when
\* the tag differs from the state store's; it then runs record_update and
\* the fanout whether or not the history already holds the tag, and when the
\* history does, the history stays as it was.
C37_GatedByTagOnly ==
    [][\A repo \in Repos :
          Len(checks'[repo]) = Len(checks[repo]) + 1
          => LET e == checks'[repo][Len(checks'[repo])] IN
             e.tag \notin {None, <<>>}
             => /\ e.novel <=> state[repo] # e.tag
                /\ e.novel
                     => /\ e.fanout
                        /\ GetPriority(priorities', repo).update_count
                              = GetPriority(priorities, repo).update_count + 1
                        /\ InHistory(history, repo, e.tag) => history' = history]_vars

\* tag 1 was announced, then tag 2; the release with tag 2 was withdrawn and
\* the next check announced tag 1 again: update_count is 3 and the history
\* holds one entry for tag 1
C37_Witness ==
    \E repo \in Repos :
        /\ Len(checks[repo]) = 3
        /\ checks[repo][1].tag = TagText(1) /\ checks[repo][1].wroteState
        /\ checks[repo][2].tag = TagText(2) /\ checks[repo][2].wroteState
        /\ checks[repo][3].tag = TagText(1)
        /\ checks[repo][3].novel /\ checks[repo][3].fanout
        /\ checks[repo][3].wroteState /\ ~checks[repo][3].added
        /\ state[repo] = TagText(1)
        /\ HistoryCount(history, repo, TagText(1)) = 1
        /\ GetPriority(priorities, repo).update_count = 3

\* --------------------------------------- the recalculation job's thread
\* The priority_update job is a lambda, which the AsyncIOScheduler hands to
\* the loop's thread pool: update_priorities runs in a worker thread beside
\* the event loop, which may run between any two of its steps.
\* the startup pass has begun on a fresh installation whose rows were loaded
InitJob ==
    /\ REPOS = SubSeq(AllRepos, 1, 1)
    /\ commands = 0
    /\ now = 0
    /\ advances = 0
    /\ upstream = [repo \in Repos |-> NoRelease]
    /\ state = [repo \in Repos |-> None]
    /\ history = <<>>
    /\ priorities = [repo \in Repos |-> DefaultPriority]
    /\ last_priority_update = 0
    /\ db = [repo \in Repos |-> NoRecord]
    /\ savePending = FALSE
    /\ users_data = [u \in UserIds |-> NoUser]
    /\ filters = <<>>
    /\ task = [t \in Tasks |->
                 IF t = "force" THEN StartedTask(REPOS, 0) ELSE IdleTask]
    /\ runs = 0
    /\ restarts = 0
    /\ checks = [repo \in Repos |-> <<>>]
    /\ lastFanout = NoFanout
    /\ killed = [repo \in Repos |-> <<>>]
    /\ probe = [pc |-> "idle", idx |-> 0, copy |-> NoRecord, jobs |-> 0, stores |-> 0]

\* the scheduler starts the job in a worker thread
JobStart ==
    /\ probe.pc = "idle"
    /\ probe.jobs < MaxJobs
    /\ probe' = [probe EXCEPT !.pc = "copy", !.idx = 1, !.jobs = @ + 1]
    /\ UNCHANGED <<REPOS, commands, now, advances, upstream, state, history,
                   priorities, last_priority_update, db, savePending, users_data,
                   filters, task, runs, restarts, checks, lastFanout, killed>>

\* the loop body of update_priorities up to new_priority_data: the record
\* is read and copied into a new dict with the three recalculated fields
JobCopy ==
    /\ probe.pc = "copy"
    /\ probe' = [probe EXCEPT
                   !.pc = "store",
                   !.copy = update_priorities(priorities, history, now)[REPOS[probe.idx]]]
    /\ UNCHANGED <<REPOS, commands, now, advances, upstream, state, history,
                   priorities, last_priority_update, db, savePending, users_data,
                   filters, task, runs, restarts, checks, lastFanout, killed>>

\* "self.priorities[repo] = new_priority_data", and after the last
\* repository last_priority_update is set and the job ends
JobStore ==
    LET last == probe.idx = Len(REPOS) IN
    /\ probe.pc = "store"
    /\ priorities' = [priorities EXCEPT ![REPOS[probe.idx]] = probe.copy]
    /\ last_priority_update' = IF last THEN now ELSE last_priority_update
    /\ probe' = [probe EXCEPT !.pc = IF last THEN "idle" ELSE "copy",
                              !.idx = IF last THEN 0 ELSE @ + 1,
                              !.copy = NoRecord, !.stores = @ + 1]
    /\ UNCHANGED <<REPOS, commands, now, advances, upstream, state, history, db,
                   savePending, users_data, filters, task, runs, restarts, checks,
                   lastFanout, killed>>

NextJob ==
    \/ JobStart
    \/ JobCopy
    \/ JobStore
    \/ \E t \in Tasks, ok \in BOOLEAN : FetchDone(t, ok)
    \/ \E t \in Tasks, ok \in BOOLEAN : SendDone(t, ok)
    \/ \E t \in Tasks : PauseDone(t)
    \/ NoPassRunning /\ TickStart
    \/ \E d \in TimeSteps : Advance(d)
    \/ \E repo \in Repos, payload \in Payloads : Publish(repo, payload)

SpecJob == InitJob /\ [][NextJob]_vars

\* C38 (as stated): a step in which the recalculation writes a record (the
\* job's store of a repository's record, or the tick's recalculation)
\* leaves last_check, last_update, consecutive_failures and total_checks of
\* every record as they were, also when a check of the repository ran while
\* the recalculation was under way.
C38_RecalcFrame ==
    [][(probe'.stores # probe.stores \/ last_priority_update' # last_priority_update)
        => \A repo \in Repos :
              LET p == GetPriority(priorities, repo)
                  q == GetPriority(priorities', repo)
              IN  /\ q.last_check = p.last_check
                  /\ q.last_update = p.last_update
                  /\ q.consecutive_failures = p.consecutive_failures
                  /\ q.total_checks = p.total_checks]_vars

\* C39 (as stated): a command that loads the priorities from the database
\* again leaves total_checks, update_count, consecutive_failures and
\* last_check of every repository at the values last written in memory,
\* whether or not the saves scheduled for them have run.
C39_ReloadKeepsUpdates ==
    [][commands' = commands + 1
        => \A repo \in Repos :
              LET p == GetPriority(priorities, repo)
                  q == GetPriority(priorities', repo)
              IN  /\ q.total_checks = p.total_checks
                  /\ q.update_count = p.update_count
                  /\ q.consecutive_failures = p.consecutive_failures
                  /\ q.last_check = p.last_check]_vars

\* C40: a 404 answer is the last request of its fetch_release call: no
\* sleep and no further request follow it and the call returns None; the
\* check it belongs to is recorded as failed, and consecutive_failures of
\* the repository rises by 1.
C40_NotFoundFails ==
    /\ [](\A i \in 1..Len(probe.log) :
            probe.log[i].status = "404"
            => /\ i = Len(probe.log)
               /\ ~probe.log[i].again
               /\ probe.log[i].slept = 0
               /\ probe.result = "None")
    /\ [][\A repo \in Repos :
            (/\ Len(checks'[repo]) = Len(checks[repo]) + 1
             /\ probe.log # <<>>
             /\ probe.log[Len(probe.log)].status = "404")
            => /\ checks'[repo][Len(checks'[repo])].tag = None
               /\ checks'[repo][Len(checks'[repo])].done
               /\ GetPriority(priorities', repo).consecutive_failures
                     = GetPriority(priorities, repo).consecutive_failures + 1
               /\ GetPriority(priorities', repo).total_checks
                     = GetPriority(priorities, repo).total_checks + 1]_vars

\* the first request was answered 404 and the check was recorded as failed
C40_Witness ==
    /\ Len(probe.log) = 1
    /\ probe.log[1].status = "404"
    /\ \E repo \in Repos :
          /\ Len(checks[repo]) = 1
          /\ checks[repo][1].tag = None
          /\ GetPriority(priorities, repo).consecutive_failures = 1
          /\ state[repo] = None

====
